---------------------------- MODULE Spec2Model ----------------------------
(***************************************************************************)
(* A state-machine model of the hansard-tidy harvesting programs.          *)
(*                                                                         *)
(*   download_hansard_html.py         download_all_html: discovery of the  *)
(*                                    sitemap, reconciliation of the       *)
(*                                    proceedings_page ledger, paced fetch *)
(*                                    loop.                                *)
(*   download_hansard_transcripts.py  download_all_transcripts: discovery  *)
(*                                    with early termination, the          *)
(*                                    transcript ledger, the download of   *)
(*                                    the XML transcripts.                 *)
(*   tidy_hansard.py                  tidy_hansard: extraction of the      *)
(*                                    downloaded transcripts into the      *)
(*                                    debate and speech tables.            *)
(*                                                                         *)
(*   tidy_html_hansard.py             tidy_hansard: the pool of workers    *)
(*                                    that extracts the collected pages    *)
(*                                    into a new target database           *)
(*                                    (SpecTidyHtml).                      *)
(*                                                                         *)
(* download_all_html keeps its own database (hansard_html.db); the other   *)
(* two share hansard.db.  The two groups share no state, so a behaviour    *)
(* runs the programs of one group, chosen by `program'.                    *)
(*                                                                         *)
(* SpecTranscripts takes the extraction of a transcript as one step on a   *)
(* summary of the document; SpecExtract follows extract_speeches and the   *)
(* insert loop of tidy_hansard element by element on one transcript, an    *)
(* XML document given as the path from its root to its deepest element.    *)
(* SpecMarked runs tidy_hansard on a ledger that holds a transcript of     *)
(* skip_transcripts; SpecWalk runs the discovery of                        *)
(* download_all_transcripts on a site that stays the same (subsites).      *)
(*                                                                         *)
(* Time stamps (sitemap lastmod values, datetime.now, julianday('now'))    *)
(* are points of one integer time line 1..MaxTime: days for               *)
(* download_all_html, periods of timedelta(weeks=4) for the programs of    *)
(* hansard.db.  SQL NULL is NULL.                                          *)
(* Intervals of the monotonic clock are hundredths of a second, saturated  *)
(* at seconds_per_request.                                                 *)
(***************************************************************************)
EXTENDS Integers, Sequences, FiniteSets, TLC

(***************************************************************************)
(* Bounds of the model.                                                    *)
(***************************************************************************)
\* The last day of the calendar: sitemap lastmod values and now are 1..MaxTime.
MaxTime == 3
Times == 1..MaxTime

\* SQL NULL in a column of time stamps (an access_time not yet set).
NULL == 0

\* SQL NULL in a column of blobs or urls (a compressed_page not yet
\* retrieved).
NullBlob == << >>

\* metadata 'last-run' as first inserted: julian day 0, further than a day
\* before every day of the calendar.
LastRunInitial == -1

(***************************************************************************)
(* The remote site: the sitemap index lists the sub-sitemaps, each lists   *)
(* <loc, lastmod> entries.  A loc is its sequence of path segments.        *)
(***************************************************************************)
LocOrder == << <<"hansard", "a">>, <<"hansard", "b">>, <<"committees", "c">> >>

Locs == { LocOrder[k] : k \in 1..Len(LocOrder) }

all_sitemaps == << "sitemap1", "sitemap2" >>

\* "hansard" in loc
IsHansard(loc) == \E k \in 1..Len(loc) : loc[k] = "hansard"

\* The <url> lists a sub-sitemap can answer with: (loc, lastmod) pairs.  A
\* sub-sitemap lists any of the locs, each once, with any lastmod.  (The
\* same loc in two sub-sitemaps is the case of a repeated loc, and the two
\* sub-sitemaps give the locs in either order.)
ListOf(lastmods) ==
    LET listed == SelectSeq(LocOrder, LAMBDA loc : lastmods[loc] # 0)
    IN  [ k \in DOMAIN listed |-> << listed[k], lastmods[listed[k]] >> ]

UrlLists == { ListOf(lastmods) : lastmods \in [ Locs -> { 0 } \cup Times ] }

\* response.content: what the site serves for a url on a day.
ResponseContent(url, day) == << url, day >>

\* zlib.compress(response.content, level=9): an opaque, non-null value that
\* determines the content.
Compress(content) == << "zlib", content >>

(***************************************************************************)
(* State.                                                                  *)
(***************************************************************************)
VARIABLES
    program,            \* which group of programs the behaviour runs
    now,                \* the wall clock, a point of Times
    pc,                 \* where the running process is
    proceedings_page,   \* the committed table: a set of rows
    metadata,           \* the committed value of metadata 'last-run'
    txn,                \* the connection's open transaction, if any
    active_proceedings, \* the temporary table, rows in rowid order
    sitemap_i,          \* the sub-sitemap the discovery loop gets next
    to_download,        \* the stale urls of the running pass, in order
    dl_i,               \* the entry of to_download requested next
    last_start,         \* "0" or "request": what wait_a_bit measures from
    gap,                \* time since the start of the latest request
    mono,               \* time.monotonic(), saturated
    error,              \* whether the latest request of the process raised
    \* hansard.db and hansard_transcripts.zip
    transcript,         \* the committed table: a set of rows
    last_run,           \* the committed value of metadata 'last-run'
    debate,             \* the committed table debate
    speech,             \* the committed table speech
    zip,                \* the archive: for each transcript, the entry that
                        \* its row of the ledger names, if it is written
    tidy_txn,           \* tidy_hansard's open transaction, if any
    map_i,              \* the sub-sitemap of all_maps visited next
    prev_lastmod,       \* prev_lastmod, inside the loop over all_maps
    activity_latest,    \* activity_latest: group -> (lastmod, loc)
    transcript_queue,   \* what is left of to_download / to_process
    \* tidy_html_hansard.py: hansard_html.db attached as collected, and the
    \* target database
    collected,          \* the retrieved rows of collected.proceedings_page,
                        \* in url order: whether extract_page_data succeeds
    row_i,              \* the row of the select submitted next
    futures,            \* futures: the submitted rows not yet taken
    finished,           \* the submitted rows whose worker has returned
    result,             \* result: the row of the latest future.result()
    target_txn,         \* the transaction on the target database
    target_db,          \* the target database file
    raised,             \* the exception that ended the latest run, if any
    \* tidy_hansard.py: extract_speeches of one transcript, and the inserts
    \* of its speeches
    transcript_xml,     \* the transcript: its elements, outermost first
    member_data,        \* the PHIDs the handbook api returns
    speech_i,           \* how many of speech_nodes the for loop has taken
    subdebateinfo,      \* the local subdebateinfo: the element it is of
    debates,            \* debates
    speeches,           \* speeches
    stdout,             \* what the process has printed
    exception,          \* the exception that ended the process, if any
    insert_i,           \* the entry of speeches inserted next
    speech_speaker,     \* the table speech_speaker
    speech_interjector, \* the table speech_interjector
    speech_turn,        \* the table speech_turn
    \* the site, for the walk of download_all_transcripts
    subsites            \* the urls of each sub-sitemap of all_maps, when
                        \* the site is the same for the whole behaviour

html_vars == << proceedings_page, metadata, txn, active_proceedings,
                sitemap_i, to_download, dl_i, last_start, gap, mono, error >>

transcript_vars == << transcript, last_run, debate, speech, zip, tidy_txn,
                      map_i, prev_lastmod, activity_latest, transcript_queue >>

pool_vars == << collected, row_i, futures, finished, result, target_txn,
                target_db, raised >>

extract_vars == << transcript_xml, member_data, speech_i, subdebateinfo,
                   debates, speeches, stdout, exception, insert_i,
                   speech_speaker, speech_interjector, speech_turn >>

vars == << program, subsites, now, pc, html_vars, transcript_vars, pool_vars,
          extract_vars >>

\* What no step of tidy_html_hansard.py changes, and what no step of the
\* extraction of a transcript changes.
pool_frame == << program, subsites, now, html_vars, transcript_vars, extract_vars >>
extract_frame == << program, subsites, now, html_vars, transcript_vars, pool_vars >>

\* What no step of the programs of hansard_html.db and hansard.db changes.
fixed_vars == << program, subsites, pool_vars, extract_vars >>

\* The same without stdout and exception, for the steps that start a
\* process of hansard.db or end one with an exception.
process_frame == << program, subsites, pool_vars, transcript_xml, member_data,
                   speech_i, subdebateinfo, debates, speeches, insert_i,
                   speech_speaker, speech_interjector, speech_turn >>
tidy_frame == << process_frame, exception >>

\* def wait_a_bit(request_start, seconds_per_request=7.51), in 1/100 s.
seconds_per_request == 751

Sat(t) == IF t > seconds_per_request THEN seconds_per_request ELSE t

\* How long one session.get (retries and backoff included) can take.
Durations == { 300, seconds_per_request }

\* What time.monotonic() can read when the fetch loop is entered, where the
\* process reads it first.
MonoStarts == { 0, seconds_per_request }

\* sqlite3.connect(db_path, isolation_level=None): every statement outside
\* an explicit begin .. commit is committed as it is executed.
AutocommitOff == FALSE
Autocommit == TRUE

NoTxn == [ open |-> FALSE, page |-> {}, run |-> NULL ]

\* What the connection reads: its own uncommitted writes, if any.
PageView == IF txn.open THEN txn.page ELSE proceedings_page
RunView == IF txn.open THEN txn.run ELSE metadata

Urls(table) == { r.url : r \in table }
RowOf(table, url) == CHOOSE r \in table : r.url = url

\* A data-changing statement outside begin .. commit.
WriteOutsideTxn(page) ==
    IF Autocommit
    THEN /\ proceedings_page' = page
         /\ txn' = txn
    ELSE /\ txn' = [ open |-> TRUE, page |-> page, run |-> RunView ]
         /\ proceedings_page' = proceedings_page

\* The process is gone: the open transaction is rolled back and everything
\* the process held in memory (the temporary table too) is lost.
ResetMemory ==
    /\ active_proceedings' = << >>
    /\ sitemap_i' = 1
    /\ to_download' = << >>
    /\ dl_i' = 1
    /\ last_start' = "0"
    /\ gap' = seconds_per_request

ResetProcess ==
    /\ txn' = NoTxn
    /\ mono' = seconds_per_request
    /\ ResetMemory

InitHtml ==
    /\ proceedings_page = {}
    /\ metadata = LastRunInitial
    /\ txn = NoTxn
    /\ active_proceedings = << >>
    /\ sitemap_i = 1
    /\ to_download = << >>
    /\ dl_i = 1
    /\ last_start = "0"
    /\ gap = seconds_per_request
    /\ mono = seconds_per_request
    /\ error = FALSE

\* Time passes.  (A walk of the sitemap takes less than a unit of time.)
Tick ==
    /\ now < MaxTime
    /\ pc \in { "idle", "done", "select", "fetch" }
    /\ now' = now + 1
    /\ UNCHANGED << fixed_vars, pc, html_vars, transcript_vars >>

(***************************************************************************)
(* download_all_html: discovery of the sitemap and reconciliation.         *)
(***************************************************************************)

\* The process starts: the tables exist (create .. if not exists), and the
\* sitemap is walked only when the last walk is more than a day old:
\* julianday('now') - value > 1.
SitemapCheckDue == now - metadata > 1

Start ==
    /\ program = "html"
    /\ pc \in { "idle", "done" }
    /\ ResetMemory
    /\ error' = FALSE
    /\ IF SitemapCheckDue
       THEN \* get_sitemap_urls, then db.execute("begin")
            /\ pc' = "sitemaps"
            /\ UNCHANGED mono
            /\ txn' = [ open |-> TRUE, page |-> proceedings_page,
                        run |-> metadata ]
       ELSE /\ pc' = "select"
            /\ txn' = NoTxn
            /\ mono' \in MonoStarts
    /\ UNCHANGED << now, proceedings_page, metadata >>
    /\ UNCHANGED << fixed_vars, transcript_vars >>

\* hansard_urls = [(loc, lastmod) for loc, lastmod in subsite_urls
\*                 if "hansard" in loc]
HansardUrls(subsite_urls) ==
    SelectSeq(subsite_urls, LAMBDA entry : IsHansard(entry[1]))

ActiveUrls(active) == { active[k][1] : k \in 1..Len(active) }

\* insert into active_proceedings values (?, ?) hits url primary key.
DuplicateUrl(active, hansard_urls) ==
    LET all == active \o hansard_urls
    IN  \E j, k \in 1..Len(all) : j # k /\ all[j][1] = all[k][1]

\* The rowid sqlite gives a row inserted with page_id NULL into a table with
\* page_id integer primary key: one more than the largest in use.
MaxPageId(page) ==
    IF page = {} THEN 0
    ELSE CHOOSE m \in { r.page_id : r \in page } :
            \A r \in page : r.page_id <= m

\* where pp.last_mod is null or ap.last_mod > pp.last_mod
NeedsReplaceAlways(page, ap) == TRUE
NeedsReplace(page, ap) ==
    \/ ap[1] \notin Urls(page)
    \/ ap[2] > RowOf(page, ap[1]).last_mod

\* The row REPLACE writes for one row of the select.
ReplacedRowReset(page, before, ap) ==
    [ page_id |-> IF ap[1] \in Urls(before)
                  THEN RowOf(before, ap[1]).page_id
                  ELSE MaxPageId(page) + 1,
      url |-> ap[1], last_mod |-> ap[2],
      access_time |-> NULL, compressed_page |-> NullBlob ]
ReplacedRow(page, before, ap) ==
    IF ap[1] \in Urls(before)
    THEN LET pp == RowOf(before, ap[1])
         IN  [ page_id |-> pp.page_id, url |-> ap[1], last_mod |-> ap[2],
               access_time |-> pp.access_time,
               compressed_page |-> pp.compressed_page ]
    ELSE [ page_id |-> MaxPageId(page) + 1, url |-> ap[1], last_mod |-> ap[2],
           access_time |-> NULL, compressed_page |-> NullBlob ]

\* replace into proceedings_page(...) select ... from active_proceedings ap
\* left outer join proceedings_page pp using(url) where ...
\* `before' is the table the select reads, `page' the table as written so far.
RECURSIVE ReplaceInto(_, _, _)
ReplaceInto(page, before, active) ==
    IF active = << >> THEN page
    ELSE LET ap == Head(active)
         IN  IF NeedsReplace(before, ap)
             THEN LET new == ReplacedRow(page, before, ap)
                      kept == { r \in page : r.url # new.url
                                             /\ r.page_id # new.page_id }
                  IN  ReplaceInto(kept \cup { new }, before, Tail(active))
             ELSE ReplaceInto(page, before, Tail(active))

\* db.executemany("insert into active_proceedings values(?, ?)",
\*                 hansard_urls): rows of the temporary table, no other.
InsertMany(hansard_urls) ==
    /\ active_proceedings' = active_proceedings \o hansard_urls
    /\ UNCHANGED << proceedings_page, txn >>

\* One turn of the loop over all_sitemaps whose get_location_urls answers.
DiscoverSitemap ==
    /\ pc = "sitemaps"
    /\ sitemap_i <= Len(all_sitemaps)
    /\ \E subsite_urls \in UrlLists :
         LET hansard_urls == HansardUrls(subsite_urls)
         IN  IF DuplicateUrl(active_proceedings, hansard_urls)
             THEN \* sqlite3.IntegrityError ends the process
                  /\ pc' = "idle"
                  /\ ResetProcess
                  /\ error' = FALSE
                  /\ UNCHANGED << proceedings_page, metadata >>
             ELSE /\ InsertMany(hansard_urls)
                  /\ sitemap_i' = sitemap_i + 1
                  /\ UNCHANGED << pc, metadata, to_download, dl_i,
                                  last_start, gap, mono, error >>
    /\ UNCHANGED << fixed_vars, now, transcript_vars >>

\* get_location_urls raises: session.get has used up its retries (or the
\* answer is no XML).  Nothing catches it.
GetLocationUrlsSkips ==
    /\ pc = "sitemaps"
    /\ sitemap_i <= Len(all_sitemaps)
    /\ sitemap_i' = sitemap_i + 1
    /\ error' = TRUE
    /\ UNCHANGED << now, pc, proceedings_page, metadata, txn,
                    active_proceedings, to_download, dl_i, last_start, gap,
                    mono >>
    /\ UNCHANGED << fixed_vars, transcript_vars >>
GetLocationUrlsFails ==
    /\ pc = "sitemaps"
    /\ sitemap_i <= Len(all_sitemaps)
    /\ pc' = "idle"
    /\ ResetProcess
    /\ error' = TRUE
    /\ UNCHANGED << now, proceedings_page, metadata >>
    /\ UNCHANGED << fixed_vars, transcript_vars >>

\* delete from proceedings_page
\* where url not in (select url from active_proceedings)
DeleteNothing(page, active) == page
DeleteFrom(page, active) ==
    { r \in page : r.url \in ActiveUrls(active) }

DeleteMissing ==
    /\ pc = "sitemaps"
    /\ sitemap_i > Len(all_sitemaps)
    /\ txn' = [ txn EXCEPT !.page = DeleteFrom(txn.page, active_proceedings) ]
    /\ pc' = "replace"
    /\ UNCHANGED << now, proceedings_page, metadata, active_proceedings,
                    sitemap_i, to_download, dl_i, last_start, gap, mono,
                    error >>
    /\ UNCHANGED << fixed_vars, transcript_vars >>

ReplaceUpdated ==
    /\ pc = "replace"
    /\ txn' = [ txn EXCEPT
                  !.page = ReplaceInto(txn.page, txn.page, active_proceedings) ]
    /\ pc' = "stamp"
    /\ UNCHANGED << now, proceedings_page, metadata, active_proceedings,
                    sitemap_i, to_download, dl_i, last_start, gap, mono,
                    error >>
    /\ UNCHANGED << fixed_vars, transcript_vars >>

\* replace into metadata values('last-run', julianday('now'))
StampLastRun ==
    /\ pc = "stamp"
    /\ txn' = [ txn EXCEPT !.run = now ]
    /\ pc' = "commit"
    /\ UNCHANGED << now, proceedings_page, metadata, active_proceedings,
                    sitemap_i, to_download, dl_i, last_start, gap, mono,
                    error >>
    /\ UNCHANGED << fixed_vars, transcript_vars >>

\* db.execute("commit").  Nothing reads the temporary table or the loop
\* index after it: they are dropped here.
Commit ==
    /\ pc = "commit"
    /\ proceedings_page' = txn.page
    /\ metadata' = txn.run
    /\ txn' = NoTxn
    /\ pc' = "select"
    /\ active_proceedings' = << >>
    /\ sitemap_i' = 1
    /\ mono' \in MonoStarts
    /\ UNCHANGED << now, to_download, dl_i, last_start, gap, error >>
    /\ UNCHANGED << fixed_vars, transcript_vars >>

(***************************************************************************)
(* download_all_html: the fetch loop (while True).                         *)
(***************************************************************************)

\* where access_time is null or access_time < last_mod
NeverFetched(r) == r.access_time = NULL
IsStale(r) == r.access_time = NULL \/ r.access_time < r.last_mod

StaleRows(page) == { r \in page : IsStale(r) }

\* order by coalesce(access_time, '1900-01-01'): never retrieved rows sort
\* before every access time.
SortKey(r) == IF r.access_time = NULL THEN 0 ELSE r.access_time

\* The orders the select can return the rows in: rows of equal key come in
\* any order.
AnyOrder(rows) ==
    { s \in [ 1..Cardinality(rows) -> rows ] :
        \A j, k \in DOMAIN s : j # k => s[j] # s[k] }

LatestFirst(rows) ==
    { s \in AnyOrder(rows) :
        \A j, k \in DOMAIN s : j < k => SortKey(s[j]) >= SortKey(s[k]) }
Orderings(rows) ==
    { s \in AnyOrder(rows) :
        \A j, k \in DOMAIN s : j < k => SortKey(s[j]) <= SortKey(s[k]) }

\* if not to_download: break
BreakAlways(stale) == TRUE
Break(stale) == stale = {}

\* The head of the while loop: select the stale rows; break when there are
\* none, else start a pass over them.
SelectStale ==
    /\ \/ pc = "select"
       \/ pc = "fetch" /\ dl_i > Len(to_download)
    /\ IF Break(StaleRows(PageView))
       THEN \* break; db.close()
            /\ pc' = "done"
            /\ txn' = NoTxn
            /\ to_download' = << >>
            /\ UNCHANGED last_start
       ELSE /\ pc' = "fetch"
            /\ \E s \in Orderings(StaleRows(PageView)) :
                 to_download' = [ k \in DOMAIN s |-> s[k].url ]
            /\ last_start' = "0"
            /\ UNCHANGED txn
    /\ dl_i' = 1
    /\ error' = FALSE
    /\ UNCHANGED << now, proceedings_page, metadata, active_proceedings,
                    sitemap_i, gap, mono >>
    /\ UNCHANGED << fixed_vars, transcript_vars >>

\* wait_a_bit(last_start): taken = time.monotonic() - request_start
Taken == IF last_start = "0" THEN mono ELSE gap

\* delay = max(seconds_per_request - taken, 0)
Delay ==
    IF seconds_per_request - Taken > 0 THEN seconds_per_request - Taken ELSE 0

\* wait_a_bit, last_start = time.monotonic(), and a request that takes d.
Request(d) ==
    /\ last_start' = "request"
    /\ gap' = Sat(d)
    /\ mono' = Sat(mono + Delay + d)

\* update proceedings_page set access_time = ?, compressed_page = ?
\* where url = ?
OnlyAccessTime(page, url, access_time, compressed_page) ==
    { IF r.url = url THEN [ r EXCEPT !.access_time = access_time ] ELSE r
      : r \in page }
UpdatePage(page, url, access_time, compressed_page) ==
    { IF r.url = url
      THEN [ r EXCEPT !.access_time = access_time,
                      !.compressed_page = compressed_page ]
      ELSE r
      : r \in page }

\* One turn of the for loop whose request succeeds.
FetchDocument ==
    /\ pc = "fetch"
    /\ dl_i <= Len(to_download)
    /\ \E d \in Durations : Request(d)
    /\ LET url == to_download[dl_i]
       IN  WriteOutsideTxn(UpdatePage(PageView, url, now,
                                      Compress(ResponseContent(url, now))))
    /\ dl_i' = dl_i + 1
    /\ error' = FALSE
    /\ UNCHANGED << now, pc, metadata, active_proceedings, sitemap_i,
                    to_download >>
    /\ UNCHANGED << fixed_vars, transcript_vars >>

\* One turn of the for loop whose request raises (retries used up, or
\* raise_for_status): except Exception ... continue
FetchFailsStops ==
    /\ pc = "fetch"
    /\ dl_i <= Len(to_download)
    /\ \E d \in Durations : Request(d)
    /\ dl_i' = Len(to_download) + 1
    /\ error' = TRUE
    /\ UNCHANGED << now, pc, proceedings_page, metadata, txn,
                    active_proceedings, sitemap_i, to_download >>
    /\ UNCHANGED << fixed_vars, transcript_vars >>
FetchFails ==
    /\ pc = "fetch"
    /\ dl_i <= Len(to_download)
    /\ \E d \in Durations : Request(d)
    /\ dl_i' = dl_i + 1
    /\ error' = TRUE
    /\ UNCHANGED << now, pc, proceedings_page, metadata, txn,
                    active_proceedings, sitemap_i, to_download >>
    /\ UNCHANGED << fixed_vars, transcript_vars >>

(***************************************************************************)
(* hansard.db: the remote site as download_all_transcripts reads it.       *)
(***************************************************************************)

\* The groups (sitting days): the first three segments of the queried path
\* of a fragment's loc.
TranscriptIds == { "chamber/hansardr/2009-06-03", "chamber/hansards/2007-05-10" }

\* A loc is (group, fragment); locs of one group compare by fragment.
Fragments == { 1 }

TranscriptLocs == TranscriptIds \X Fragments

\* group = "/".join(queried_path.split("/")[:3])
Group(loc) == loc[1]

\* min(loc, url.loc), max(lastmod, url.lastmod)
MinLoc(a, b) == IF a[2] <= b[2] THEN a ELSE b
Max(a, b) == IF a >= b THEN a ELSE b

\* all_maps = list(reversed(list(sm.get_sitemaps())))
all_maps == << "sitemap2", "sitemap1" >>

\* timedelta(weeks=4), the unit of the time line of hansard.db
CheckMargin == 1

\* insert or ignore into metadata values('last-run', '1899-01-01 00:00:00'):
\* further than the margin before every point of the time line.
LastRunInitialT == -1

\* The XML transcripts the site serves: the session header (date, chamber)
\* and the debate title of each speech node, in document order.
Headers == { [ date |-> "2009-06-03", chamber |-> "REPS" ],
             [ date |-> "2007-05-10", chamber |-> "SENATE" ] }

Bills == << "BILLS", "", "" >>

\* A transcript without session.header: session is None.
NoHeader == [ date |-> "", chamber |-> "" ]

Payloads ==
    { [ header |-> h, titles |-> << Bills, Bills >> ] : h \in Headers }
    \cup { [ header |-> [ date |-> "2009-06-03", chamber |-> "REPS" ],
             titles |-> << >> ] }
    \cup { [ header |-> NoHeader, titles |-> << Bills >> ] }

NoEntry == [ written |-> FALSE, payload |-> << >> ]

\* A url of another family ("hansard" is not in its loc), and the urls a
\* sub-sitemap lists: (loc, lastmod).
OtherLoc == << "committees", 1 >>

SiteUrls == (TranscriptLocs \cup { OtherLoc }) \X Times

\* The sites whose sub-sitemaps list one or two urls each.
Sites == [ DOMAIN all_maps -> { { a, b } : a \in SiteUrls, b \in SiteUrls } ]

\* subsites when the site is not one fixed site: a sub-sitemap lists any
\* urls, and any lastmod, each time it is read.
AnySite == << >>

NoActivity == [ lastmod |-> NULL, loc |-> << >> ]

NoTidyTxn == [ open |-> FALSE, transcript |-> {}, debate |-> {}, speech |-> {} ]

InitTranscripts ==
    /\ transcript = {}
    /\ last_run = LastRunInitialT
    /\ debate = {}
    /\ speech = {}
    /\ zip = [ t \in TranscriptIds |-> NoEntry ]
    /\ tidy_txn = NoTidyTxn
    /\ map_i = 1
    /\ prev_lastmod = NULL
    /\ activity_latest = [ t \in TranscriptIds |-> NoActivity ]
    /\ transcript_queue = << >>
    /\ subsites = AnySite

(***************************************************************************)
(* tidy_html_hansard.py: the source rows and the target database.          *)
(***************************************************************************)

\* The most rows collected.proceedings_page holds with access_time not null.
MaxPages == 3

\* if len(futures) >= 1000: the model's pool is full at Capacity futures.
Capacity == 2

\* What the select over collected.proceedings_page can return: the rows in
\* url order (row k has the k-th url), each with whether extract_page_data
\* gets through its try block for the stored page.
CollectedPages == UNION { [ 1..n -> BOOLEAN ] : n \in 0..MaxPages }

\* The name result before its first assignment.
Unbound == 0

NoTarget == [ exists |-> FALSE, schema |-> FALSE, page |-> {}, failed |-> {} ]

NoTargetTxn == [ open |-> FALSE, page |-> {}, failed |-> {} ]

\* No run of tidy_html_hansard.py, and no file at target_db.
NoPool ==
    /\ collected = << >>
    /\ row_i = 1
    /\ futures = {}
    /\ finished = {}
    /\ result = Unbound
    /\ target_txn = NoTargetTxn
    /\ target_db = NoTarget
    /\ raised = ""

\* The name subdebateinfo before its first assignment.
UnboundElement ==
    [ tag |-> "", info |-> "", title |-> "", para |-> "", name_id |-> "" ]

\* No extraction is running.
NoExtraction ==
    /\ transcript_xml = << >>
    /\ member_data = {}
    /\ speech_i = 0
    /\ subdebateinfo = UnboundElement
    /\ debates = {}
    /\ speeches = << >>
    /\ stdout = << >>
    /\ exception = ""
    /\ insert_i = 1
    /\ speech_speaker = {}
    /\ speech_interjector = {}
    /\ speech_turn = {}

\* The time line of hansard.db is read at its end: every lastmod the site
\* can list is in the past.
Init ==
    /\ program \in { "html", "transcripts" }
    /\ now = IF program = "html" THEN 1 ELSE MaxTime
    /\ pc = "idle"
    /\ InitHtml
    /\ InitTranscripts
    /\ NoPool
    /\ NoExtraction

\* The process is gone: its transaction is rolled back, its memory lost.
ResetTranscriptProcess ==
    /\ tidy_txn' = NoTidyTxn
    /\ map_i' = 1
    /\ prev_lastmod' = NULL
    /\ activity_latest' = [ t \in TranscriptIds |-> NoActivity ]
    /\ transcript_queue' = << >>

TranscriptIdsOf(table) == { r.transcript_id : r \in table }
TranscriptRow(table, t) == CHOOSE r \in table : r.transcript_id = t

(***************************************************************************)
(* download_all_transcripts: discovery.                                    *)
(***************************************************************************)

\* check_until = datetime.fromisoformat(last-run) - timedelta(weeks=4)
NoMargin == last_run
check_until == last_run - CheckMargin

\* lastmod = max(url.lastmod for url in subsite_urls), of sub-sitemap i
SubsiteLastmods(i) ==
    IF subsites = AnySite THEN Times
    ELSE { CHOOSE m \in { url[2] : url \in subsites[i] } :
               \A url \in subsites[i] : url[2] <= m }

\* The urls of sub-sitemap i with "hansard" in url.loc; prev is the lastmod
\* of the sub-sitemap.
SubsiteUrls(i, prev) ==
    IF subsites = AnySite THEN TranscriptLocs \X (1..prev)
    ELSE { url \in subsites[i] : url[1] \in TranscriptLocs }

\* The head of turn i of the loop over all_maps, for a sub-sitemap whose
\* urls have lastmod at most `lastmod', one of them (of any family)
\* `lastmod':
\*     lastmod = max(url.lastmod for url in subsite_urls)
\*     assert lastmod <= prev_lastmod
\*     if lastmod < check_until: break
\* (After break nothing reads prev_lastmod again.)
GetSubsiteUnchecked(i, prev, lastmod) ==
    /\ pc' = IF lastmod < check_until THEN "reconcile" ELSE "urls"
    /\ map_i' = i
    /\ prev_lastmod' = IF lastmod < check_until THEN NULL ELSE lastmod
    /\ exception' = ""
    /\ UNCHANGED activity_latest
GetSubsite(i, prev, lastmod) ==
    IF ~ (lastmod <= prev)
    THEN \* AssertionError ends the process
         /\ pc' = "idle"
         /\ map_i' = 1
         /\ prev_lastmod' = NULL
         /\ activity_latest' = [ t \in TranscriptIds |-> NoActivity ]
         /\ exception' = "AssertionError"
    ELSE /\ pc' = IF lastmod < check_until THEN "reconcile" ELSE "urls"
         /\ map_i' = i
         /\ prev_lastmod' = IF lastmod < check_until THEN NULL ELSE lastmod
         /\ exception' = ""
         /\ UNCHANGED activity_latest

\* The process starts, up to the urls of the first sub-sitemap:
\* prev_lastmod = datetime.now() and the head of the first turn.  (With
\* last-run NULL, fromisoformat raises and the process is gone before it has
\* done anything.)
StartTranscripts ==
    /\ program = "transcripts"
    /\ pc = "idle"
    /\ last_run # NULL
    /\ \E lastmod \in SubsiteLastmods(1) : GetSubsite(1, now, lastmod)
    /\ UNCHANGED << process_frame, stdout, now, html_vars, transcript,
                    last_run, debate, speech, zip, tidy_txn,
                    transcript_queue >>

\* if group in activity_latest: ... else: ...
Latest(activity, loc, lastmod) ==
    LET group == Group(loc)
    IN  IF activity[group].lastmod # NULL
        THEN [ activity EXCEPT
                 ![group] = [ lastmod |-> Max(activity[group].lastmod, lastmod),
                              loc |-> MinLoc(activity[group].loc, loc) ] ]
        ELSE [ activity EXCEPT
                 ![group] = [ lastmod |-> lastmod, loc |-> loc ] ]

\* One turn of the loop over the urls of the sub-sitemap, for a url of the
\* hansard family.  (A url of another family changes nothing.)
NextUrl ==
    /\ pc = "urls"
    /\ \E url \in SubsiteUrls(map_i, prev_lastmod) :
         activity_latest' = Latest(activity_latest, url[1], url[2])
    /\ UNCHANGED << fixed_vars, now, pc, html_vars, transcript, last_run, debate,
                    speech, zip, tidy_txn, map_i, prev_lastmod,
                    transcript_queue >>

\* The urls of the sub-sitemap are used up: time.sleep(1), and the head of
\* the next turn, or the end of the loop when all_maps is used up.
\* Every url of the sub-sitemap has had its turn (a url met again changes
\* nothing: max and min).
UrlsUsedUp ==
    \/ subsites = AnySite
    \/ \A url \in SubsiteUrls(map_i, prev_lastmod) :
           Latest(activity_latest, url[1], url[2]) = activity_latest

NextSubsite ==
    /\ pc = "urls"
    /\ UrlsUsedUp
    /\ IF map_i = Len(all_maps)
       THEN /\ pc' = "reconcile"
            /\ map_i' = map_i + 1
            /\ prev_lastmod' = NULL
            /\ UNCHANGED << activity_latest, exception >>
       ELSE \E lastmod \in SubsiteLastmods(map_i + 1) :
                GetSubsite(map_i + 1, prev_lastmod, lastmod)
    /\ UNCHANGED << process_frame, stdout, now, html_vars, transcript,
                    last_run, debate, speech, zip, tidy_txn,
                    transcript_queue >>

\* replace into transcript(transcript_id, last_mod, html_url) select ...
\* from active_transcript at left outer join transcript t
\* where t.last_mod is null or at.last_mod > t.last_mod
\* The columns not named are NULL in the row written.  foreign_keys=0: no
\* row of another table is touched.
ReplaceDue(table, activity, t) ==
    /\ activity[t].lastmod # NULL
    /\ \/ t \notin TranscriptIdsOf(table)
       \/ activity[t].lastmod > TranscriptRow(table, t).last_mod

Replaced(table, activity) ==
    { t \in TranscriptIds : ReplaceDue(table, activity, t) }

ReplaceAndPrune(table, activity) ==
    { r \in table : /\ activity[r.transcript_id].lastmod # NULL
                    /\ r.transcript_id \notin Replaced(table, activity) }
    \cup { [ transcript_id |-> t, html_url |-> activity[t].loc,
             xml_url |-> NullBlob, last_mod |-> activity[t].lastmod,
             access_time |-> NULL, process_time |-> NULL ]
           : t \in Replaced(table, activity) }
ReplaceTranscripts(table, activity) ==
    { r \in table : r.transcript_id \notin Replaced(table, activity) }
    \cup { [ transcript_id |-> t, html_url |-> activity[t].loc,
             xml_url |-> NullBlob, last_mod |-> activity[t].lastmod,
             access_time |-> NULL, process_time |-> NULL ]
           : t \in Replaced(table, activity) }

\* (select max(last_mod) from transcript)
MaxLastMod(table) ==
    IF table = {} THEN NULL
    ELSE CHOOSE m \in { r.last_mod : r \in table } :
            \A r \in table : r.last_mod <= m

\* select transcript_id, last_mod, html_url from transcript
\* where access_time is null
NotRetrieved(table) == { r \in table : r.access_time = NULL }

\* After the loop over all_maps (run to its end, or left by break): the
\* transaction begin .. commit that reconciles the ledger, and the select
\* of what to download.  A row written names an entry f"{transcript_id}/
\* {last_mod}" that is not in the archive.
Reconcile ==
    /\ pc = "reconcile"
    /\ transcript' = ReplaceTranscripts(transcript, activity_latest)
    /\ last_run' = MaxLastMod(transcript')
    /\ zip' = [ t \in TranscriptIds |->
                  IF t \in Replaced(transcript, activity_latest)
                  THEN NoEntry ELSE zip[t] ]
    /\ \E order \in AnyOrder(NotRetrieved(transcript')) :
         transcript_queue' = [ k \in DOMAIN order |-> order[k].transcript_id ]
    /\ pc' = "download"
    \* nothing reads these again
    /\ prev_lastmod' = NULL
    /\ activity_latest' = [ t \in TranscriptIds |-> NoActivity ]
    /\ UNCHANGED << fixed_vars, now, html_vars, debate, speech, tidy_txn, map_i >>

(***************************************************************************)
(* download_all_transcripts: the download of the transcripts.              *)
(***************************************************************************)

\* if "/toc_unixml/" in url
XmlUrl(t) == << "toc_unixml", t >>

\* transcript_zip.writestr(f"{transcript_id}/{lastmod}", response.content)
WriteStr(archive, t, lastmod, payload) ==
    [ archive EXCEPT ![t] = [ written |-> TRUE, payload |-> payload ] ]

\* update transcript set xml_url = ?, access_time = ? where transcript_id = ?
UpdateTranscript(table, t, xml_url, access_time) ==
    { IF r.transcript_id = t
      THEN [ r EXCEPT !.xml_url = xml_url, !.access_time = access_time ]
      ELSE r
      : r \in table }

\* One turn of the loop over to_download that comes to its end: the page has
\* a link to the XML transcript, which is stored, or it has none.
DownloadTranscript ==
    /\ pc = "download"
    /\ transcript_queue # << >>
    /\ LET t == Head(transcript_queue)
           lastmod == TranscriptRow(transcript, t).last_mod
       IN  \/ \E payload \in Payloads :
                /\ zip' = WriteStr(zip, t, lastmod, payload)
                /\ transcript' = UpdateTranscript(transcript, t, XmlUrl(t), now)
           \/ /\ zip' = zip
              /\ transcript' = UpdateTranscript(transcript, t, NullBlob, now)
    /\ transcript_queue' = Tail(transcript_queue)
    /\ UNCHANGED << fixed_vars, now, pc, html_vars, last_run, debate, speech,
                    tidy_txn, map_i, prev_lastmod, activity_latest >>

\* to_download is used up: db.close()
DownloadsDone ==
    /\ pc = "download"
    /\ transcript_queue = << >>
    /\ pc' = "idle"
    /\ map_i' = 1
    /\ UNCHANGED << fixed_vars, now, html_vars, transcript, last_run, debate,
                    speech, zip, tidy_txn, prev_lastmod, activity_latest,
                    transcript_queue >>

(***************************************************************************)
(* tidy_hansard.                                                           *)
(***************************************************************************)

skip_transcripts ==
    { "hansard80/hansardr80/1979-02-20", "hansard80/hansardr80/1973-05-09",
      "hansard80/hansardr80/19111204", "hansard80/hansardr80/19480908",
      "chamber/hansardr/1901-10-16", "chamber/hansards/2010-02-23" }

\* skip_transcripts[transcript_id], for the marked transcript of the model
Reason(t) ==
    IF t = "chamber/hansards/2010-02-23"
    THEN "Duplicate of chamber/hansards/2010-03-09"
    ELSE "(another reason)"

\* f"Skipping marked transcript - {transcript_id}. Reason: {...}"
NoReason(t) == << "Skipping marked transcript - ", t, ". Reason: " >>
SkipMessage(t) ==
    << "Skipping marked transcript - ", t, ". Reason: ", Reason(t) >>

\* Normalise houses
House(chamber) ==
    IF chamber = "REPS" THEN "House of Reps"
    ELSE IF chamber \in { "SENATE", "SEN" } THEN "Senate"
    ELSE chamber

\* Special case - the date appears to be inconsistent in the file.
Date(t, header) ==
    IF t = "chamber/hansardr/2009-06-03" THEN "2009-06-03" ELSE header.date

\* session = root.find("session.header"); house = session.find("chamber").text
\* raises AttributeError when the transcript has no session.header.
ExtractSpeechesRaises(payload) == payload.header = NoHeader

\* extract_speeches, of a transcript whose speech nodes lie under the debate
\* titles payload.titles: the debate rows and the speech rows.
ExtractDebates(t, payload) ==
    { [ transcript_id |-> t, date |-> Date(t, payload.header),
        house |-> House(payload.header.chamber),
        debate |-> payload.titles[k] ]
      : k \in DOMAIN payload.titles }

ExtractSpeeches(t, payload) ==
    { [ transcript_id |-> t, date |-> Date(t, payload.header),
        house |-> House(payload.header.chamber),
        debate |-> payload.titles[k], speech_number |-> k - 1 ]
      : k \in DOMAIN payload.titles }

\* unique (date, house, debate, subdebate_1, subdebate_2)
DebateKey(d) == << d.date, d.house, d.debate >>

\* unique(date, house, speech_number)
SpeechKey(sp) == << sp.date, sp.house, sp.speech_number >>

\* pragma foreign_keys=<value>, given the connection's setting: sqlite
\* ignores the pragma inside a transaction.
PragmaForeignKeys(in_transaction, setting, value) ==
    IF in_transaction THEN setting ELSE value

\* replace into transcript select * from transcript where xml_url is not
\* null and access_time is not null and process_time is null
ReadyToProcess(table) ==
    { r \in table : /\ r.xml_url # NullBlob
                    /\ r.access_time # NULL
                    /\ r.process_time = NULL }

\* The rows of a child table left when the rows of `replaced' are deleted
\* and written again: on delete cascade, when foreign keys are enforced.
Cascade(children, replaced, foreign_keys) ==
    IF foreign_keys = 1
    THEN { c \in children : c.transcript_id \notin TranscriptIdsOf(replaced) }
    ELSE children

\* if rebuild: the database is replaced by one that holds the transcript
\* rows, process_time null, and the metadata, and nothing else.
RebuildKeepsTimes(table) == table
Rebuild(table) == { [ r EXCEPT !.process_time = NULL ] : r \in table }

\* The process starts, up to the loop over to_process.
StartTidy ==
    /\ program = "transcripts"
    /\ pc = "idle"
    /\ \E rebuild \in BOOLEAN :
         LET old_transcript == IF rebuild THEN Rebuild(transcript) ELSE transcript
             old_debate == IF rebuild THEN {} ELSE debate
             old_speech == IF rebuild THEN {} ELSE speech
             \* db_conn.execute("begin") ... pragma foreign_keys=1
             foreign_keys == PragmaForeignKeys(TRUE, 0, 1)
             ready == ReadyToProcess(old_transcript)
         IN  /\ transcript' = old_transcript
             /\ debate' = old_debate
             /\ speech' = old_speech
             /\ tidy_txn' = [ open |-> TRUE,
                              transcript |-> old_transcript,
                              debate |-> Cascade(old_debate, ready, foreign_keys),
                              speech |-> Cascade(old_speech, ready, foreign_keys) ]
             /\ \E order \in AnyOrder(ready) :
                  transcript_queue' =
                      [ k \in DOMAIN order |-> order[k].transcript_id ]
    /\ pc' = "tidy"
    \* the new process has printed nothing
    /\ stdout' = << >>
    /\ exception' = ""
    /\ UNCHANGED << process_frame, now, html_vars, last_run, zip, map_i,
                    prev_lastmod, activity_latest >>

\* insert into debate / insert into speech: sqlite3.IntegrityError when a
\* row with the key is in the table.
DebateKeyTaken(rows, new) ==
    \E r \in rows, n \in new : DebateKey(r) = DebateKey(n)

SpeechKeyTaken(rows, new) ==
    \E r \in rows, n \in new : SpeechKey(r) = SpeechKey(n)

\* update transcript set process_time = ? where transcript_id = ?
MarkProcessed(table, t, process_time) ==
    { IF r.transcript_id = t THEN [ r EXCEPT !.process_time = process_time ]
      ELSE r
      : r \in table }

\* One turn of the loop over to_process.
TidyTranscriptCommits ==
    /\ pc = "tidy"
    /\ transcript_queue # << >>
    /\ LET t == Head(transcript_queue)
           debate_rows == ExtractDebates(t, zip[t].payload)
           speech_rows == ExtractSpeeches(t, zip[t].payload)
       IN  /\ ~ ExtractSpeechesRaises(zip[t].payload)
           /\ ~ DebateKeyTaken(tidy_txn.debate, debate_rows)
           /\ ~ SpeechKeyTaken(tidy_txn.speech, speech_rows)
           /\ tidy_txn' =
                 [ tidy_txn EXCEPT
                     !.debate = @ \cup debate_rows,
                     !.speech = @ \cup speech_rows,
                     !.transcript = MarkProcessed(@, t, now) ]
           /\ transcript' = tidy_txn'.transcript
           /\ debate' = tidy_txn'.debate
           /\ speech' = tidy_txn'.speech
           /\ transcript_queue' = Tail(transcript_queue)
    /\ UNCHANGED << pc, map_i, prev_lastmod, activity_latest >>
    /\ UNCHANGED << fixed_vars, now, html_vars, last_run, zip >>
TidyTranscript ==
    /\ pc = "tidy"
    /\ transcript_queue # << >>
    /\ LET t == Head(transcript_queue)
           debate_rows == ExtractDebates(t, zip[t].payload)
           speech_rows == ExtractSpeeches(t, zip[t].payload)
       IN  IF t \in skip_transcripts
           THEN \* print(...); continue
                /\ stdout' = Append(stdout, SkipMessage(t))
                /\ transcript_queue' = Tail(transcript_queue)
                /\ UNCHANGED << pc, tidy_txn, map_i, prev_lastmod,
                                activity_latest >>
           ELSE IF \/ ExtractSpeechesRaises(zip[t].payload)
                   \/ DebateKeyTaken(tidy_txn.debate, debate_rows)
                   \/ SpeechKeyTaken(tidy_txn.speech, speech_rows)
           THEN \* AttributeError, or sqlite3.IntegrityError, ends the
                \* process
                /\ pc' = "idle"
                /\ ResetTranscriptProcess
                /\ UNCHANGED stdout
           ELSE /\ tidy_txn' =
                      [ tidy_txn EXCEPT
                          !.debate = @ \cup debate_rows,
                          !.speech = @ \cup speech_rows,
                          !.transcript = MarkProcessed(@, t, now) ]
                /\ transcript_queue' = Tail(transcript_queue)
                /\ UNCHANGED << pc, map_i, prev_lastmod, activity_latest,
                                stdout >>
    /\ UNCHANGED << tidy_frame, now, html_vars, transcript, last_run, debate,
                    speech, zip >>

\* to_process is used up: db_conn.execute("commit")
TidyCommit ==
    /\ pc = "tidy"
    /\ transcript_queue = << >>
    /\ transcript' = tidy_txn.transcript
    /\ debate' = tidy_txn.debate
    /\ speech' = tidy_txn.speech
    /\ tidy_txn' = NoTidyTxn
    /\ pc' = "idle"
    /\ UNCHANGED << fixed_vars, now, html_vars, last_run, zip, map_i,
                    prev_lastmod, activity_latest, transcript_queue >>

\* The process is killed, or the machine stops, at any point of a run.
Crash ==
    /\ pc \notin { "idle", "done" }
    /\ pc' = "idle"
    /\ ResetProcess
    /\ error' = FALSE
    /\ ResetTranscriptProcess
    /\ UNCHANGED << fixed_vars, now, proceedings_page, metadata, transcript,
                    last_run, debate, speech, zip >>

(***************************************************************************)
(* tidy_html_hansard.py: tidy_hansard.                                     *)
(***************************************************************************)

\* extract_page_data(url, access_time, compressed_page), in a worker: the
\* metadata and the content, or set() and None when anything in the try
\* block raises.
ExtractPageData(k) ==
    [ url |-> k, content |-> IF collected[k] THEN << "content", k >> ELSE NullBlob ]

\* The process ends with an exception: the connection goes without commit,
\* the pool is shut down.
TidyHtmlRaises(name) ==
    /\ pc' = "idle"
    /\ raised' = name
    /\ target_txn' = NoTargetTxn
    /\ futures' = {}
    /\ finished' = {}
    /\ result' = Unbound
    /\ row_i' = 1

\* insert_data(db_conn, result): the exception it raises, "" when none.
\*   content is None: the row of failed_processing_page is inserted and
\*     failures += 1 raises (failures is a local of tidy_hansard, not of
\*     insert_data);
\*   else insert into main.proceedings_page, where url is unique.
InsertDataRaises(table, r) ==
    IF r.content = NullBlob THEN "UnboundLocalError"
    ELSE IF r.url \in table.page THEN "IntegrityError"
    ELSE ""

\* insert_data(db_conn, result): the tables after its inserts.
InsertData(table, r) ==
    IF r.content = NullBlob
    THEN [ table EXCEPT !.failed = @ \cup { r.url } ]
    ELSE [ table EXCEPT !.page = @ \cup { r.url } ]

\* insert_data for each row of done, in the order the set gives them.
RECURSIVE InsertAll(_, _)
InsertAll(table, order) ==
    IF order = << >> THEN table
    ELSE InsertAll(InsertData(table, ExtractPageData(Head(order))), Tail(order))

\* The first exception insert_data raises over the rows of order, "" if none.
RECURSIVE FirstRaised(_, _)
FirstRaised(table, order) ==
    IF order = << >> THEN ""
    ELSE LET r == ExtractPageData(Head(order))
         IN  IF InsertDataRaises(table, r) # ""
             THEN InsertDataRaises(table, r)
             ELSE FirstRaised(InsertData(table, r), Tail(order))

\* The process starts: the target must not exist; connect, attach, begin,
\* the schema.
StartTidyHtml ==
    /\ program = "tidy_html"
    /\ pc = "idle"
    /\ IF target_db.exists
       THEN \* raise ValueError("Target DB must not already exist ...")
            /\ raised' = "ValueError"
            /\ UNCHANGED << pc, target_db, target_txn >>
       ELSE /\ target_db' = [ NoTarget EXCEPT !.exists = TRUE ]
            /\ target_txn' = [ NoTargetTxn EXCEPT !.open = TRUE ]
            /\ pc' = "submit"
            /\ raised' = ""
    /\ row_i' = 1
    /\ futures' = {}
    /\ finished' = {}
    /\ result' = Unbound
    /\ UNCHANGED << pool_frame, collected >>

\* The file at target_db is deleted by hand, as the ValueError asks.
DeleteTarget ==
    /\ program = "tidy_html"
    /\ pc = "idle"
    /\ target_db.exists
    /\ target_db' = NoTarget
    /\ raised' = ""
    /\ UNCHANGED << pool_frame, pc, collected,
                    row_i, futures, finished, result, target_txn >>

\* A worker of the pool returns from extract_page_data.
WorkerReturns ==
    /\ pc \in { "submit", "wait", "as_completed" }
    /\ \E k \in futures \ finished : finished' = finished \cup { k }
    /\ UNCHANGED << pool_frame, pc, collected,
                    row_i, futures, result, target_txn, target_db, raised >>

\* One row of the select: futures.add(pool.submit(extract_page_data, *row));
\* the pool is full when len(futures) >= 1000.
SubmitUnthrottled ==
    /\ pc = "submit"
    /\ row_i <= Len(collected)
    /\ futures' = futures \cup { row_i }
    /\ row_i' = row_i + 1
    /\ UNCHANGED << pool_frame, pc, collected,
                    finished, result, target_txn, target_db, raised >>
Submit ==
    /\ pc = "submit"
    /\ row_i <= Len(collected)
    /\ futures' = futures \cup { row_i }
    /\ row_i' = row_i + 1
    /\ pc' = IF Cardinality(futures') >= Capacity THEN "wait" ELSE "submit"
    /\ UNCHANGED << pool_frame, collected,
                    finished, result, target_txn, target_db, raised >>

\* done, futures = cf.wait(futures, return_when="FIRST_COMPLETED"), once a
\* future is done; for future in done: result = future.result();
\* insert_data(db_conn, result)
WaitFirstCompleted ==
    /\ pc = "wait"
    /\ futures \cap finished # {}
    /\ LET done == futures \cap finished
       IN  \E order \in AnyOrder(done) :
             IF FirstRaised(target_txn, order) # ""
             THEN /\ TidyHtmlRaises(FirstRaised(target_txn, order))
                  /\ UNCHANGED target_db
             ELSE /\ target_txn' = InsertAll(target_txn, order)
                  /\ result' = order[Len(order)]
                  /\ futures' = futures \ done
                  /\ finished' = finished \ done
                  /\ pc' = "submit"
                  /\ UNCHANGED << row_i, target_db, raised >>
    /\ UNCHANGED << pool_frame, collected >>

\* The select is used up: for future in cf.as_completed(futures)
EndOfRows ==
    /\ pc = "submit"
    /\ row_i > Len(collected)
    /\ pc' = "as_completed"
    /\ UNCHANGED << pool_frame, pool_vars >>

\* One turn of the loop over cf.as_completed(futures), once a future is
\* done: insert_data(db_conn, result), with result as it was left by the
\* loop over done, or unbound.
InsertStaleResult ==
    /\ pc = "as_completed"
    /\ \E k \in futures \cap finished :
         IF result = Unbound
         THEN /\ TidyHtmlRaises("UnboundLocalError")
              /\ UNCHANGED target_db
         ELSE IF InsertDataRaises(target_txn, ExtractPageData(result)) # ""
         THEN /\ TidyHtmlRaises(
                     InsertDataRaises(target_txn, ExtractPageData(result)))
              /\ UNCHANGED target_db
         ELSE /\ target_txn' = InsertData(target_txn, ExtractPageData(result))
              /\ futures' = futures \ { k }
              /\ finished' = finished \ { k }
              /\ UNCHANGED << pc, row_i, result, target_db, raised >>
    /\ UNCHANGED << pool_frame, collected >>

\* No future is left: db_conn.execute("commit")
CommitTidyHtml ==
    /\ pc = "as_completed"
    /\ futures = {}
    /\ target_db' = [ exists |-> TRUE, schema |-> TRUE,
                      page |-> target_txn.page, failed |-> target_txn.failed ]
    /\ target_txn' = NoTargetTxn
    /\ pc' = "idle"
    /\ finished' = {}
    /\ result' = Unbound
    /\ row_i' = 1
    /\ UNCHANGED << pool_frame, collected,
                    futures, raised >>

\* The process is killed at any point of a run.
TidyHtmlKilled ==
    /\ program = "tidy_html"
    /\ pc \in { "submit", "wait", "as_completed" }
    /\ TidyHtmlRaises("KeyboardInterrupt")
    /\ UNCHANGED << pool_frame, collected,
                    target_db >>

(***************************************************************************)
(* tidy_hansard.py: extract_speeches over the tree of one transcript, and  *)
(* the inserts of its speeches.                                            *)
(*                                                                         *)
(* A transcript is a chain of elements, outermost first: element k + 1 is  *)
(* the child of element k, element 1 the child of the root.  Position 0 is *)
(* the root, position -1 the parent of the root (None).                    *)
(***************************************************************************)

\* find() that finds no element, and the text of an element without text.
Absent == "(absent)"
None == "(None)"

\* An element: its tag; which info child it has (debateinfo, subdebateinfo,
\* petitioninfo, petition.groupinfo); the text of the title and of the para
\* of that child; for a talk.start, the text of the name.id below it.
Element(tag, info, title, para, name_id) ==
    [ tag |-> tag, info |-> info, title |-> title, para |-> para,
      name_id |-> name_id ]

Plain(tag) == Element(tag, Absent, Absent, Absent, Absent)

TalkStart(name_id) == Element("talk.start", Absent, Absent, Absent, name_id)

\* The elements above a speech: debates, petition groups, subdebates and
\* petitions, with a title, with a title without text, without the info
\* child, with a para in place of the title.
ContainerElements ==
    { Element("debate", "debateinfo", "D", Absent, Absent),
      Element("debate", "debateinfo", None, Absent, Absent),
      Plain("debate"),
      Element("petition.group", "petition.groupinfo", "PG", Absent, Absent),
      Element("petition.group", "petition.groupinfo", None, Absent, Absent),
      Element("subdebate.1", "subdebateinfo", "S1", Absent, Absent),
      Element("subdebate.1", "subdebateinfo", None, Absent, Absent),
      Element("subdebate.1", "subdebateinfo", Absent, None, Absent),
      Plain("subdebate.1"),
      Element("subdebate.2", "subdebateinfo", "S2", Absent, Absent),
      Plain("subdebate.2"),
      Element("petition", "petitioninfo", "P", Absent, Absent),
      Element("petition", "petitioninfo", None, Absent, Absent) }

\* //speech|//question|//quest|//quesion|//answer
SpeechTags == { "speech", "question", "quest", "quesion", "answer" }

\* The elements between a speech and a talk.start below it, and the
\* talk.starts: a talk.start holds the talker, with the name.id.
InnerElements == { Plain("interjection"), Plain("para"), Plain("answer") }

TalkStarts == { TalkStart("AB1"), TalkStart(" ZZ9") }

\* The longest chain of containers above a speech, and of elements between
\* a speech and a talk.start.
MaxContainers == 2
MaxInner == 2

Chains(elements, n) == UNION { [ 1..m -> elements ] : m \in 0..n }

\* The transcripts extracted: a speech under a chain of containers; a
\* speech-like element, alone or with a speech-like element below it; a
\* speech over a chain of interjections, paras and answers that ends, or
\* not, in a talk.start.
Transcripts ==
    { c \o << Plain("speech") >> :
        c \in Chains(ContainerElements, MaxContainers) }
    \cup { << Plain(a) >> : a \in SpeechTags }
    \cup { << Plain(a), Plain(b) >> : a \in SpeechTags, b \in SpeechTags }
    \cup { << Plain(a), Plain("para"), Plain(b) >> :
             a \in SpeechTags, b \in SpeechTags }
    \cup { << Plain("speech") >> \o c \o t :
             c \in Chains(InnerElements, MaxInner),
             t \in Chains(TalkStarts, 1) }

\* What the handbook api can answer with: the PHIDs of the members.
MemberData == SUBSET { "AB1", "ZZ9" }

\* The transcript extracted, and its session.header.
transcript_id == "chamber/hansards/2007-05-10"
session == [ date |-> "2007-05-10", chamber |-> "SENATE" ]

\* str.lower() and str.strip(), on the texts of the model.
Lower(text) ==
    CASE text = "AB1" -> "ab1"
      [] text = "ZZ9" -> "zz9"
      [] text = " ZZ9" -> " zz9"
      [] OTHER -> text

Strip(text) ==
    CASE text = " ZZ9" -> "ZZ9"
      [] text = " zz9" -> "zz9"
      [] OTHER -> text

\* The truth value of an element's text.
Truthy(text) == text \notin { Absent, None, "" }

\* speech_nodes: the positions of the matching elements, in document order.
speech_nodes(doc) ==
    SelectSeq([ k \in 1..Len(doc) |-> k ], LAMBDA k : doc[k].tag \in SpeechTags)

\* if parent.tag in ("speech", "question", "answer", "quest", "quesion")
OnlySpeech(tag) == tag = "speech"
WrongElement(tag) ==
    tag \in { "speech", "question", "answer", "quest", "quesion" }

\* if parent.tag == "petition": the walk after lines 90-91.
AtPetition(doc, p, st) ==
    IF doc[p].tag # "petition" THEN st
    ELSE IF doc[p].info # "petitioninfo" \/ doc[p].title = Absent
    THEN [ st EXCEPT !.raises = "AttributeError" ]
    ELSE [ st EXCEPT !.debate_info[2] = doc[p].title ]

\* if parent.tag in ("subdebate.1", "subdebate.2"): the walk after lines
\* 93-111.  subdebateinfo is assigned only when the element has one of the
\* two info children; else it is what an earlier turn left, or unbound.
AtSubdebate(doc, p, st) ==
    IF doc[p].tag \notin { "subdebate.1", "subdebate.2" } THEN st
    ELSE LET debate_info_level == IF doc[p].tag = "subdebate.1" THEN 1 ELSE 2
             bound == IF doc[p].info \in { "subdebateinfo", "debateinfo" }
                      THEN doc[p]
                      ELSE st.subdebateinfo
         IN  IF bound = UnboundElement
             THEN [ st EXCEPT !.raises = "UnboundLocalError" ]
             ELSE IF bound.title # Absent
             THEN [ st EXCEPT
                      !.subdebateinfo = bound,
                      !.debate_info[debate_info_level + 1] =
                          IF Truthy(bound.title) THEN bound.title
                          ELSE "<untitled sub-debate>" ]
             ELSE IF bound.para # Absent
             THEN [ st EXCEPT
                      !.subdebateinfo = bound,
                      !.debate_info[debate_info_level + 1] = bound.para ]
             ELSE [ st EXCEPT !.subdebateinfo = bound ]

\* while parent is not None and parent.tag not in ("debate",
\* "petition.group"), from the element at p upwards.
RECURSIVE Ascend(_, _, _)
Ascend(doc, p, st) ==
    IF p = -1 THEN [ st EXCEPT !.parent = p ]
    ELSE IF p = 0 THEN Ascend(doc, -1, st)
    ELSE IF doc[p].tag \in { "debate", "petition.group" }
    THEN [ st EXCEPT !.parent = p ]
    ELSE IF WrongElement(doc[p].tag)
    THEN [ st EXCEPT !.skip = TRUE, !.parent = p ]
    ELSE LET at_petition == AtPetition(doc, p, st)
             at_subdebate == AtSubdebate(doc, p, at_petition)
         IN  IF at_petition.raises # "" THEN at_petition
             ELSE IF at_subdebate.raises # "" THEN at_subdebate
             ELSE Ascend(doc, p - 1, at_subdebate)

\* Lines 118-126: the title of the debate, or of the petition group, the
\* walk has stopped at.
AtDebate(doc, st) ==
    IF st.parent < 1 THEN st
    ELSE IF doc[st.parent].tag = "debate"
    THEN IF doc[st.parent].info = "debateinfo" /\ Truthy(doc[st.parent].title)
         THEN [ st EXCEPT !.debate_info[1] = doc[st.parent].title ]
         ELSE st
    ELSE IF doc[st.parent].info # "petition.groupinfo"
              \/ doc[st.parent].title = Absent
    THEN [ st EXCEPT !.raises = "AttributeError" ]
    ELSE [ st EXCEPT !.debate_info[1] = doc[st.parent].title ]

\* The name.id texts below the talk.start at j.
NameIds(doc, j) ==
    { doc[m].name_id : m \in { n \in j..Len(doc) : doc[n].tag = "talk.start" } }

\* .//talk.start[not(parent::interjection)]//name.id, lowered
Speakers(doc, k) ==
    { Lower(text) :
        text \in { t \in UNION { NameIds(doc, j) :
                        j \in { n \in (k + 1)..Len(doc) :
                                  /\ doc[n].tag = "talk.start"
                                  /\ doc[n - 1].tag # "interjection" } } :
                     Truthy(t) } }

\* .//interjection//talk.start//name.id, lowered and stripped
Interjectors(doc, k) ==
    { Strip(Lower(text)) :
        text \in { t \in UNION { NameIds(doc, j) :
                        j \in { n \in (k + 1)..Len(doc) :
                                  /\ doc[n].tag = "talk.start"
                                  /\ \E i \in (k + 1)..(n - 1) :
                                       doc[i].tag = "interjection" } } :
                     Truthy(t) } }

\* etree.tostring(speech, with_tail=False): the element and all below it.
TagOnly(doc, k) == << doc[k] >>
tostring(doc, k) == SubSeq(doc, k, Len(doc))

speech_type(tag) ==
    CASE tag = "question" -> "question"
      [] tag = "quest" -> "question"
      [] tag = "quesion" -> "question"
      [] tag = "answer" -> "answer"
      [] tag = "speech" -> "speech"

debate_row(debate_info) ==
    [ transcript_id |-> transcript_id, date |-> Date(transcript_id, session),
      house |-> House(session.chamber), debate |-> debate_info ]

\* The process ends with an exception: extract_speeches returns nothing.
ExtractionRaises(name) ==
    /\ pc' = "raised"
    /\ exception' = name
    /\ debates' = {}
    /\ speeches' = << >>
    /\ subdebateinfo' = UnboundElement
    /\ UNCHANGED << speech_i, stdout, insert_i, speech_speaker,
                    speech_interjector >>

\* One turn of the for loop over speech_nodes.
ExtractSpeech ==
    /\ program = "extract"
    /\ pc = "extract"
    /\ speech_i < Len(speech_nodes(transcript_xml))
    /\ LET doc == transcript_xml
           speech_number == speech_i
           node == speech_nodes(doc)[speech_i + 1]
           walk == Ascend(doc, node - 1,
                          [ debate_info |-> << "<untitled debate>", "", "" >>,
                            subdebateinfo |-> subdebateinfo,
                            skip |-> FALSE, raises |-> "",
                            parent |-> node - 1 ])
           found == AtDebate(doc, walk)
           appended ==
               /\ debates' = debates \cup { debate_row(found.debate_info) }
               /\ speeches' = Append(speeches,
                      [ debate |-> found.debate_info,
                        speech_number |-> speech_number,
                        speech_type |-> speech_type(doc[node].tag),
                        speech_xml |-> tostring(doc, node),
                        speakers |-> Speakers(doc, node),
                        interjectors |-> Interjectors(doc, node) ])
               /\ speech_i' = speech_i + 1
               /\ subdebateinfo' = found.subdebateinfo
               /\ UNCHANGED << pc, stdout, exception, insert_i,
                               speech_speaker, speech_interjector >>
       IN  IF walk.raises # "" THEN ExtractionRaises(walk.raises)
           ELSE IF walk.skip
           THEN \* continue
                /\ speech_i' = speech_i + 1
                /\ subdebateinfo' = walk.subdebateinfo
                /\ UNCHANGED << pc, debates, speeches, stdout, exception,
                                insert_i, speech_speaker, speech_interjector >>
           ELSE IF found.raises # "" THEN ExtractionRaises(found.raises)
           ELSE IF \E k \in 1..3 : found.debate_info[k] = None
           THEN \* breakpoint(): the debugger is left with an exception
                \* (no terminal), or the operator lets the run go on.
                \/ ExtractionRaises("BdbQuit")
                \/ appended
           ELSE appended
    /\ UNCHANGED << extract_frame, transcript_xml, member_data, speech_turn >>

\* Lines 402-411: the phids inserted for a speech are the collected ones
\* that are in all_members.
ValidKeysAll(phids, all_members) == phids
ValidKeys(phids, all_members) == phids \cap all_members

\* values[0] = values[0].lower() ... select phid from member
all_members == { Lower(phid) : phid \in member_data }

\* return debates, speeches; for debate in debates: insert into debate
ReturnSpeeches ==
    /\ program = "extract"
    /\ pc = "extract"
    /\ speech_i = Len(speech_nodes(transcript_xml))
    /\ pc' = "insert"
    /\ insert_i' = 1
    /\ UNCHANGED << extract_frame, transcript_xml, member_data, speech_i,
                    subdebateinfo, debates, speeches, stdout, exception,
                    speech_speaker, speech_interjector, speech_turn >>

\* One turn of the loop over speeches: insert into speech, where debate_id
\* (not null) is the id of the row of debate with the five key values, none
\* when one of them is None; then the rows of speech_speaker and of
\* speech_interjector.  speech_id is the rowid: the tables were empty.
InsertSpeech ==
    /\ program = "extract"
    /\ pc = "insert"
    /\ insert_i <= Len(speeches)
    /\ LET speech_id == insert_i
           speakers == speeches[insert_i].speakers
           interjectors == speeches[insert_i].interjectors
       IN  IF \E k \in 1..3 : speeches[insert_i].debate[k] = None
           THEN \* sqlite3.IntegrityError: NOT NULL constraint failed
                /\ pc' = "raised"
                /\ exception' = "IntegrityError"
                /\ speech_speaker' = {}
                /\ speech_interjector' = {}
                /\ UNCHANGED insert_i
           ELSE /\ speech_speaker' = speech_speaker \cup
                      { << speech_id, phid >> :
                          phid \in ValidKeys(speakers, all_members) }
                /\ speech_interjector' = speech_interjector \cup
                      { << speech_id, phid >> :
                          phid \in ValidKeys(interjectors, all_members) }
                /\ insert_i' = insert_i + 1
                /\ UNCHANGED << pc, exception >>
    \* no insert into speech_turn: the schema creates the table (289-297)
    \* and no other statement of the program names it
    /\ UNCHANGED << extract_frame, transcript_xml, member_data, speech_i,
                    subdebateinfo, debates, speeches, stdout, speech_turn >>

\* update transcript set process_time = ? where transcript_id = ?
UpdateProcessTime ==
    /\ program = "extract"
    /\ pc = "insert"
    /\ insert_i > Len(speeches)
    /\ pc' = "processed"
    /\ UNCHANGED << extract_frame, extract_vars >>


NextHtml ==
    \/ Tick
    \/ Start
    \/ DiscoverSitemap
    \/ GetLocationUrlsFails
    \/ DeleteMissing
    \/ ReplaceUpdated
    \/ StampLastRun
    \/ Commit
    \/ SelectStale
    \/ FetchDocument
    \/ FetchFails
    \/ Crash

NextTranscripts ==
    \/ StartTranscripts
    \/ NextUrl
    \/ NextSubsite
    \/ Reconcile
    \/ DownloadTranscript
    \/ DownloadsDone
    \/ StartTidy
    \/ TidyTranscript
    \/ TidyCommit
    \/ Crash

\* download_hansard_html.py on the database hansard_html.db
InitHtmlDb == Init /\ program = "html"
SpecHtml == InitHtmlDb /\ [][NextHtml]_vars

\* download_hansard_transcripts.py and tidy_hansard.py on hansard.db
InitHansardDb == Init /\ program = "transcripts"
SpecTranscripts == InitHansardDb /\ [][NextTranscripts]_vars

\* tidy_html_hansard.py on hansard_html.db and the target database
InitTargetDb ==
    /\ program = "tidy_html"
    /\ now = MaxTime
    /\ pc = "idle"
    /\ InitHtml
    /\ InitTranscripts
    /\ collected \in CollectedPages
    /\ row_i = 1
    /\ futures = {}
    /\ finished = {}
    /\ result = Unbound
    /\ target_txn = NoTargetTxn
    /\ target_db = NoTarget
    /\ raised = ""
    /\ NoExtraction

NextTidyHtml ==
    \/ StartTidyHtml
    \/ DeleteTarget
    \/ WorkerReturns
    \/ Submit
    \/ WaitFirstCompleted
    \/ EndOfRows
    \/ InsertStaleResult
    \/ CommitTidyHtml
    \/ TidyHtmlKilled

SpecTidyHtml == InitTargetDb /\ [][NextTidyHtml]_vars

\* tidy_hansard on a hansard.db and an archive that download_all_transcripts
\* has left, of a site that lists a transcript of skip_transcripts and
\* another one: each is not in the ledger, or not yet retrieved, or
\* retrieved without a link to the XML, or retrieved with one of Payloads.
MarkedIds == { "chamber/hansards/2010-02-23", "chamber/hansards/2007-05-10" }

LedgerRow(t, entry, access_time) ==
    [ transcript_id |-> t, html_url |-> << t, 1 >>,
      xml_url |-> IF entry.written THEN XmlUrl(t) ELSE NullBlob,
      last_mod |-> 1, access_time |-> access_time, process_time |-> NULL ]

InitMarked ==
    /\ program = "transcripts"
    /\ now = MaxTime
    /\ pc = "idle"
    /\ InitHtml
    /\ NoPool
    /\ NoExtraction
    /\ zip \in [ MarkedIds ->
                   { NoEntry } \cup { [ written |-> TRUE, payload |-> p ]
                                      : p \in Payloads } ]
    /\ \E tracked \in SUBSET MarkedIds :
         \E retrieved \in SUBSET tracked :
            /\ \A t \in MarkedIds : zip[t].written => t \in retrieved
            /\ transcript =
                 { LedgerRow(t, zip[t],
                             IF t \in retrieved THEN now ELSE NULL)
                   : t \in tracked }
    /\ last_run = MaxLastMod(transcript)
    /\ debate = {}
    /\ speech = {}
    /\ tidy_txn = NoTidyTxn
    /\ map_i = 1
    /\ prev_lastmod = NULL
    /\ activity_latest = [ t \in TranscriptIds |-> NoActivity ]
    /\ transcript_queue = << >>
    /\ subsites = AnySite

NextMarked ==
    \/ StartTidy
    \/ TidyTranscript
    \/ TidyCommit
    \/ Crash

SpecMarked == InitMarked /\ [][NextMarked]_vars

\* download_all_transcripts up to its reconciliation, on a site that stays
\* as it is, with an empty ledger or a ledger of one transcript.
InitWalk ==
    /\ program = "transcripts"
    /\ now = MaxTime
    /\ pc = "idle"
    /\ InitHtml
    /\ NoPool
    /\ NoExtraction
    /\ subsites \in Sites
    /\ transcript \in
          { {} } \cup
          { { [ LedgerRow("chamber/hansards/2007-05-10", NoEntry, NULL)
                  EXCEPT !.last_mod = m ] } : m \in Times }
    /\ last_run = IF transcript = {} THEN LastRunInitialT
                  ELSE MaxLastMod(transcript)
    /\ debate = {}
    /\ speech = {}
    /\ zip = [ t \in TranscriptIds |-> NoEntry ]
    /\ tidy_txn = NoTidyTxn
    /\ map_i = 1
    /\ prev_lastmod = NULL
    /\ activity_latest = [ t \in TranscriptIds |-> NoActivity ]
    /\ transcript_queue = << >>

NextWalk ==
    \/ StartTranscripts
    \/ NextUrl
    \/ NextSubsite
    \/ Reconcile

SpecWalk == InitWalk /\ [][NextWalk]_vars

\* extract_speeches and the inserts of tidy_hansard, for one transcript
InitExtract ==
    /\ program = "extract"
    /\ now = MaxTime
    /\ pc = "extract"
    /\ InitHtml
    /\ InitTranscripts
    /\ NoPool
    /\ transcript_xml \in Transcripts
    /\ member_data \in MemberData
    /\ speech_i = 0
    /\ subdebateinfo = UnboundElement
    /\ debates = {}
    /\ speeches = << >>
    /\ stdout = << >>
    /\ exception = ""
    /\ insert_i = 1
    /\ speech_speaker = {}
    /\ speech_interjector = {}
    /\ speech_turn = {}

NextExtract ==
    \/ ExtractSpeech
    \/ ReturnSpeeches
    \/ InsertSpeech
    \/ UpdateProcessTime

SpecExtract == InitExtract /\ [][NextExtract]_vars

Next ==
    \/ Tick
    \/ Start
    \/ DiscoverSitemap
    \/ GetLocationUrlsFails
    \/ DeleteMissing
    \/ ReplaceUpdated
    \/ StampLastRun
    \/ Commit
    \/ SelectStale
    \/ FetchDocument
    \/ FetchFails
    \/ StartTranscripts
    \/ NextUrl
    \/ NextSubsite
    \/ Reconcile
    \/ DownloadTranscript
    \/ DownloadsDone
    \/ StartTidy
    \/ TidyTranscript
    \/ TidyCommit
    \/ Crash

Spec == Init /\ [][Next]_vars

(***************************************************************************)
(* Properties of the ledgers.                                              *)
(***************************************************************************)

\* C1: a row that stays in a ledger (proceedings_page, transcript) never has
\* its last_mod lowered: a step leaves it as it was or raises it, in the
\* committed table and in the transaction that reconciles the ledger.
C1_LastModNeverDecreases ==
    [][ /\ \A r \in proceedings_page, s \in proceedings_page' :
             r.url = s.url => s.last_mod >= r.last_mod
        /\ (txn.open /\ txn'.open) =>
             \A r \in txn.page, s \in txn'.page :
                 r.url = s.url => s.last_mod >= r.last_mod
        /\ \A r \in transcript, s \in transcript' :
             r.transcript_id = s.transcript_id => s.last_mod >= r.last_mod
      ]_vars

\* The replace has run in a pass that lists one tracked url with a greater
\* lastmod (its row is raised) and another with a smaller one (its row is
\* left as it was).
C1_RaisedAndKept ==
    /\ pc = "stamp"
    /\ \E r \in proceedings_page, s \in txn.page :
         r.url = s.url /\ s.last_mod > r.last_mod
    /\ \E r \in proceedings_page, k \in DOMAIN active_proceedings :
         /\ active_proceedings[k][1] = r.url
         /\ active_proceedings[k][2] < r.last_mod
         /\ r \in txn.page

\* C2: in proceedings_page, as committed and as the connection sees it, a
\* row has a compressed_page exactly when it has an access_time.
C2_PayloadIffAccessTime ==
    \A r \in proceedings_page \cup txn.page :
        (r.compressed_page # NullBlob) <=> (r.access_time # NULL)

\* A row retrieved and then found updated by a later pass (it keeps payload
\* and access_time) next to a row never retrieved.
C2_FetchedAndUnfetched ==
    /\ \E r \in proceedings_page :
         /\ r.access_time # NULL
         /\ r.compressed_page # NullBlob
         /\ r.access_time < r.last_mod
    /\ \E r \in proceedings_page :
         r.access_time = NULL /\ r.compressed_page = NullBlob

\* The rows of debate and speech a transcript owns.
OwnedRows(t) ==
    { d \in debate : d.transcript_id = t }
    \cup { sp \in speech : sp.transcript_id = t }

Processed(t) ==
    \E r \in transcript : r.transcript_id = t /\ r.process_time # NULL

C4_DeletionOnlyAfterFullWalk ==
    [][ /\ (Urls(proceedings_page) \ Urls(proceedings_page') # {}) =>
             (pc = "commit" /\ sitemap_i > Len(all_sitemaps))
        /\ (txn.open /\ txn'.open /\ Urls(txn.page) \ Urls(txn'.page) # {}) =>
             sitemap_i > Len(all_sitemaps)
        /\ (TranscriptIdsOf(transcript) \ TranscriptIdsOf(transcript') # {}) =>
             (pc = "reconcile" /\ map_i > Len(all_maps))
      ]_vars

\* A run of download_all_transcripts that left the loop by break has
\* reconciled the ledger, and a row tracked before the run is still there.
C4_EarlyTerminationKeepsRows ==
    /\ pc = "download"
    /\ map_i <= Len(all_maps)
    /\ \E r \in transcript : r.access_time # NULL

\* C5: the commit of a discovery pass of download_all_html leaves in
\* proceedings_page exactly the hansard urls the sub-sitemaps listed; a url
\* not tracked before has access_time and compressed_page NULL.
C5_CommitMatchesListing ==
    [][ (pc = "commit" /\ pc' = "select") =>
            /\ Urls(proceedings_page') = ActiveUrls(active_proceedings)
            /\ \A r \in proceedings_page' :
                 /\ IsHansard(r.url)
                 /\ r.url \notin Urls(proceedings_page) =>
                        (r.access_time = NULL /\ r.compressed_page = NullBlob)
      ]_vars

\* A pass has committed, a row tracked before is gone (the first page_id
\* ever given is not in the table) and a row is there with both NULL.
C5_DeletedAndInserted ==
    /\ pc = "select"
    /\ proceedings_page # {}
    /\ \A r \in proceedings_page : r.page_id > 1
    /\ \E r \in proceedings_page :
         r.access_time = NULL /\ r.compressed_page = NullBlob

\* C6: when the request for a sub-sitemap raises, the process ends, the
\* transaction is rolled back, and proceedings_page and last-run are what
\* they were; nothing had been written to either.
C6_FailedSubsiteAborts ==
    [][ (pc = "sitemaps" /\ error') =>
            /\ pc' = "idle"
            /\ proceedings_page' = proceedings_page
            /\ metadata' = metadata
            /\ txn' = NoTxn
            /\ txn.page = proceedings_page
            /\ txn.run = metadata
      ]_vars

\* A pass over a ledger that holds rows has ended on a failed request.
C6_AbortedPass ==
    pc = "idle" /\ error /\ proceedings_page # {}

(***************************************************************************)
(* Properties of the fetch loop of download_all_html.                      *)
(***************************************************************************)

\* The for loop is over to_download.
PassOver == pc = "fetch" /\ dl_i > Len(to_download)

\* A pass is over in which no request can have succeeded: every row it was
\* to retrieve is still without access_time.
ZeroSuccessPassOver ==
    /\ PassOver
    /\ \A k \in DOMAIN to_download :
         RowOf(PageView, to_download[k]).access_time = NULL

\* C7 (as the program has it): the loop is left only when no row is stale.
\* Whenever a pass is over and rows are stale, with or without a successful
\* request in the pass, the next pass over the stale rows starts.
C7_LoopEndsOnlyWhenNothingStale ==
    [][ ((pc = "select" \/ PassOver) /\ pc' \in { "fetch", "done" }
            /\ dl_i' = 1) =>
            /\ (pc' = "done") <=> (StaleRows(PageView) = {})
            /\ (pc' = "fetch") =>
                   { to_download'[k] : k \in DOMAIN to_download' }
                       = Urls(StaleRows(PageView))
      ]_vars

\* A new pass has started in a process whose requests have all failed.
C7_NewPassAfterZeroSuccess ==
    /\ pc = "fetch"
    /\ dl_i = 1
    /\ gap < seconds_per_request
    /\ proceedings_page # {}
    /\ \A r \in proceedings_page : r.access_time = NULL

\* C7 as stated: after a pass without a successful request no further pass
\* starts.
C7_ZeroSuccessPassEndsLoop ==
    [][ ZeroSuccessPassOver => ~ (pc' = "fetch" /\ dl_i' = 1) ]_vars

\* C8 as stated: whenever a request is about to be made, the wait before it
\* brings the time since the start of the request before it (in this
\* process) to seconds_per_request at least.
C8_MinimumInterval ==
    (pc = "fetch" /\ dl_i <= Len(to_download)) =>
        gap + Delay >= seconds_per_request

\* C9: a turn of the for loop whose request raises leaves proceedings_page
\* as it was and goes on to the next entry of to_download.
C9_FailedFetchSkipsDocument ==
    [][ (pc = "fetch" /\ error' /\ dl_i' # dl_i) =>
            /\ pc' = "fetch"
            /\ dl_i' = dl_i + 1
            /\ to_download' = to_download
            /\ proceedings_page' = proceedings_page
            /\ txn' = txn
      ]_vars

\* The request for a row that holds an earlier payload has just failed, the
\* row still holds it, and the pass has a further entry to go on with.
C9_FailedOnFetchedRow ==
    /\ pc = "fetch"
    /\ error
    /\ 1 < dl_i
    /\ dl_i <= Len(to_download)
    /\ LET r == RowOf(proceedings_page, to_download[dl_i - 1])
       IN  r.access_time # NULL /\ r.compressed_page # NullBlob /\ IsStale(r)

\* C10: a turn of the for loop whose request succeeds leaves the row, with
\* its access_time and its compressed_page, in the committed table, no
\* transaction open and every other row as it was; a process that ends in
\* the loop changes no committed row.
C10_FetchIsCommitted ==
    [][ /\ (pc = "fetch" /\ dl_i' = dl_i + 1 /\ ~ error') =>
             LET url == to_download[dl_i]
             IN  /\ ~ txn'.open
                 /\ proceedings_page' =
                        UpdatePage(proceedings_page, url, now,
                                   Compress(ResponseContent(url, now)))
                 /\ RowOf(proceedings_page', url).access_time # NULL
                 /\ RowOf(proceedings_page', url).compressed_page # NullBlob
        /\ (pc = "fetch" /\ pc' = "idle") =>
             proceedings_page' = proceedings_page
      ]_vars

\* A pass of two entries in which the first has been retrieved and the
\* second is in flight.
C10_FirstOfTwoCommitted ==
    /\ pc = "fetch"
    /\ dl_i = 2
    /\ Len(to_download) = 2
    /\ ~ error
    /\ ~ IsStale(RowOf(proceedings_page, to_download[1]))

(***************************************************************************)
(* C11: the rows a pass retrieves and their order.                         *)
(***************************************************************************)

\* C11: a pass that starts is over exactly the rows whose access_time is
\* null or earlier than their last_mod, each once; the rows never retrieved
\* come before every row retrieved before, and those come by ascending
\* access_time; the turns of the pass take the rows in that order.
C11_StaleRowsOldestFirst ==
    [][ /\ ((pc = "select" \/ PassOver) /\ pc' = "fetch" /\ dl_i' = 1) =>
            LET row(k) == RowOf(PageView, to_download'[k])
            IN  /\ Len(to_download') = Cardinality(StaleRows(PageView))
                /\ { to_download'[k] : k \in DOMAIN to_download' }
                       = { r.url : r \in { q \in PageView :
                              \/ q.access_time = NULL
                              \/ q.access_time < q.last_mod } }
                /\ \A j, k \in DOMAIN to_download' : j < k =>
                       /\ row(k).access_time = NULL
                              => row(j).access_time = NULL
                       /\ (row(j).access_time # NULL
                              /\ row(k).access_time # NULL)
                              => row(j).access_time <= row(k).access_time
        /\ (pc = "fetch" /\ dl_i <= Len(to_download) /\ pc' = "fetch"
                /\ dl_i' # dl_i) =>
            /\ dl_i' = dl_i + 1
            /\ to_download' = to_download
            /\ \A r \in PageView' \ PageView : r.url = to_download[dl_i]
      ]_vars

\* A pass has started over two rows retrieved at different times, the one
\* retrieved earlier first.
C11_OldestRefreshFirst ==
    /\ pc = "fetch"
    /\ dl_i = 1
    /\ Len(to_download) = 2
    /\ RowOf(PageView, to_download[1]).access_time # NULL
    /\ RowOf(PageView, to_download[1]).access_time
           < RowOf(PageView, to_download[2]).access_time

(***************************************************************************)
(* C12, C13: tidy_hansard without rebuild, of a transcript extracted       *)
(* before.                                                                 *)
(***************************************************************************)

\* C12 as stated: the rows of debate and speech a processed transcript owns
\* are the rows extracted from its stored XML; no row of an earlier
\* extraction of the transcript is left beside them.
C12_NoEarlierRowsLeft ==
    \A r \in transcript :
        r.process_time # NULL =>
            OwnedRows(r.transcript_id) \subseteq
                ExtractDebates(r.transcript_id, zip[r.transcript_id].payload)
                \cup ExtractSpeeches(r.transcript_id,
                                     zip[r.transcript_id].payload)

\* C13 as stated: the commit of a run removes, of the rows in debate and
\* speech, exactly the earlier rows of the transcripts the run processed
\* (each is left with the rows extracted from its stored XML), and the rows
\* of every other transcript are as they were.
C13_RemovesExactlyOwnRows ==
    [][ (pc = "tidy" /\ transcript_queue = << >> /\ pc' = "idle") =>
            \A t \in TranscriptIds :
                LET before == OwnedRows(t)
                    after == { d \in debate' : d.transcript_id = t }
                             \cup { sp \in speech' : sp.transcript_id = t }
                    processed_after ==
                        \E r \in transcript' :
                            r.transcript_id = t /\ r.process_time # NULL
                IN  IF ~ Processed(t) /\ processed_after
                    THEN after = ExtractDebates(t, zip[t].payload)
                                 \cup ExtractSpeeches(t, zip[t].payload)
                    ELSE after = before
      ]_vars

(***************************************************************************)
(* C14: the transaction of a tidy_hansard run.                             *)
(***************************************************************************)

\* C14 (as the program has it): one transaction spans the whole run.  While
\* the loop over to_process runs, transcript, debate and speech as stored
\* change only by the commit after the last transcript, which stores the
\* rows of every transcript of the run at once; a run that ends earlier
\* leaves the three tables as they were.
C14_RunIsOneTransaction ==
    [][ pc = "tidy" =>
          /\ (transcript' # transcript \/ debate' # debate
                  \/ speech' # speech) =>
                /\ transcript_queue = << >>
                /\ transcript' = tidy_txn.transcript
                /\ debate' = tidy_txn.debate
                /\ speech' = tidy_txn.speech
          /\ (pc' = "idle" /\ transcript_queue # << >>) =>
                /\ transcript' = transcript
                /\ debate' = debate
                /\ speech' = speech
                /\ ~ tidy_txn'.open
      ]_vars

\* A run has extracted one transcript and inserted its rows, and has
\* another to go: the rows and the process_time are in the transaction only.
C14_OneExtractedOneToGo ==
    /\ pc = "tidy"
    /\ transcript_queue # << >>
    /\ \E r \in tidy_txn.transcript :
         /\ r.process_time # NULL
         /\ ~ Processed(r.transcript_id)
         /\ \E sp \in tidy_txn.speech \ speech :
              sp.transcript_id = r.transcript_id

\* C14 as stated: when a run ends, however it ends, the transcripts it has
\* extracted are stored as processed, with their rows.
C14_ExtractedRowsAreDurable ==
    [][ (pc = "tidy" /\ pc' = "idle") =>
            /\ \A r \in tidy_txn.transcript :
                 r.process_time # NULL => r \in transcript'
            /\ tidy_txn.debate \subseteq debate'
            /\ tidy_txn.speech \subseteq speech'
      ]_vars

(***************************************************************************)
(* C15: a transcript whose extraction raises.                              *)
(***************************************************************************)

\* C15 as stated: the turn of the loop over to_process for a transcript
\* whose extraction raises leaves that transcript unprocessed and without
\* rows, and the run goes on with the next ready transcript, keeping what
\* it has extracted so far for the commit.
C15_FailedExtractionIsSkipped ==
    [][ ( /\ pc = "tidy"
          /\ transcript_queue # << >>
          /\ ExtractSpeechesRaises(zip[Head(transcript_queue)].payload)
          /\ transcript_queue' # transcript_queue ) =>
            /\ pc' = "tidy"
            /\ transcript_queue' = Tail(transcript_queue)
            /\ tidy_txn' = tidy_txn
      ]_vars

(***************************************************************************)
(* C16 .. C20: extract_speeches and the attribution of speakers.           *)
(***************************************************************************)

\* The entries of speeches made for the element at position k.
RecordsOf(k) ==
    { j \in DOMAIN speeches :
        speech_nodes(transcript_xml)[speeches[j].speech_number + 1] = k }

\* The element at k has a speech-like element above it, below the debate or
\* petition group that encloses it.
RECURSIVE NestedBelow(_, _)
NestedBelow(doc, p) ==
    IF p < 1 THEN FALSE
    ELSE IF doc[p].tag \in { "debate", "petition.group" } THEN FALSE
    ELSE IF doc[p].tag \in SpeechTags THEN TRUE
    ELSE NestedBelow(doc, p - 1)

Nested(k) == NestedBelow(transcript_xml, k - 1)

\* extract_speeches has returned, and it has raised.  (The insert of a
\* speech raises sqlite3.IntegrityError, after the return.)
Returned ==
    pc \in { "insert", "processed" } \/ exception = "IntegrityError"

ExtractionRaised == pc = "raised" /\ exception # "IntegrityError"

\* C16 (as the program has it): of the speech-like elements the for loop
\* has taken, one that has no speech-like element above it (below its
\* debate or petition group) has exactly one entry in speeches, and one
\* that has such an element above it has none; nothing is printed for an
\* element that is dropped.  When the extraction raises, no element has an
\* entry.
C16_OneRecordUnlessNested ==
    /\ ~ ExtractionRaised =>
         \A i \in 1..speech_i :
            LET k == speech_nodes(transcript_xml)[i]
            IN  Cardinality(RecordsOf(k)) = IF Nested(k) THEN 0 ELSE 1
    /\ ExtractionRaised => speeches = << >>
    /\ stdout = << >>

\* extract_speeches has returned for a transcript with a speech-like
\* element inside another: one entry, for the outer one.
C16_NestedElementDropped ==
    /\ pc = "processed"
    /\ Len(speech_nodes(transcript_xml)) = 2
    /\ Nested(speech_nodes(transcript_xml)[2])
    /\ Len(speeches) = 1

\* C16 as stated: when extract_speeches has returned, every speech-like
\* element has exactly one entry in speeches or exactly one printed line.
C16_RecordOrLoggedDiscard ==
    Returned =>
        \A i \in DOMAIN speech_nodes(transcript_xml) :
            LET k == speech_nodes(transcript_xml)[i]
            IN  Cardinality(RecordsOf(k))
                  + Cardinality({ j \in DOMAIN stdout : stdout[j] = k }) = 1

\* C17: a speech-like element with a speech-like element above it (below
\* the debate or petition group) never has an entry of its own in speeches,
\* whatever the tags of the two; and when extract_speeches has returned,
\* the outermost speech-like element above it has exactly one entry, whose
\* speech_xml holds the nested element with all below it.
C17_NestedUnitInsideOutermost ==
    \A i \in DOMAIN speech_nodes(transcript_xml) :
        LET n == speech_nodes(transcript_xml)[i]
        IN  Nested(n) =>
              /\ RecordsOf(n) = {}
              /\ Returned =>
                   \E k \in 1..(n - 1) :
                      /\ transcript_xml[k].tag \in SpeechTags
                      /\ ~ Nested(k)
                      /\ Cardinality(RecordsOf(k)) = 1
                      /\ \A j \in RecordsOf(k) :
                           SubSeq(speeches[j].speech_xml, n - k + 1,
                                  Len(speeches[j].speech_xml))
                               = SubSeq(transcript_xml, n, Len(transcript_xml))

\* An answer inside a question has been extracted: one entry, of type
\* question, whose speech_xml holds both elements.
C17_AnswerInsideQuestion ==
    /\ pc = "processed"
    /\ Len(transcript_xml) = 2
    /\ transcript_xml[1].tag = "question"
    /\ transcript_xml[2].tag = "answer"
    /\ Len(speeches) = 1
    /\ speeches[1].speech_type = "question"
    /\ Len(speeches[1].speech_xml) = 2

\* C18 as stated: no entry of speeches is for an interjection; and for each
\* entry, the name.id of a talk.start that lies inside an interjection of
\* the element is in interjectors (lowered and stripped) and is not in
\* speakers, unless a talk.start of the element outside every interjection
\* names it too.
C18_InterjectorNotDirectSpeaker ==
    \A j \in DOMAIN speeches :
        LET doc == transcript_xml
            k == speech_nodes(doc)[speeches[j].speech_number + 1]
            talk_starts == { n \in (k + 1)..Len(doc) :
                               /\ doc[n].tag = "talk.start"
                               /\ Truthy(doc[n].name_id) }
            inside == { n \in talk_starts :
                          \E i \in (k + 1)..(n - 1) :
                              doc[i].tag = "interjection" }
        IN  /\ doc[k].tag # "interjection"
            /\ \A n \in inside :
                 /\ Strip(Lower(doc[n].name_id)) \in speeches[j].interjectors
                 /\ Lower(doc[n].name_id) \in speeches[j].speakers =>
                      \E m \in talk_starts \ inside :
                          Lower(doc[m].name_id) = Lower(doc[n].name_id)

\* C19 as stated: extract_speeches does not fail for a missing title, and
\* each entry of speeches has three titles that are strings: the debate
\* title or "<untitled debate>", and for each subdebate level the title of
\* the ancestor, "<untitled sub-debate>" for an empty one, or "".
C19_TitlesAreTotal ==
    /\ ~ ExtractionRaised
    /\ \A j \in DOMAIN speeches :
         \A level \in 1..3 :
             /\ speeches[j].debate[level] # None
             /\ speeches[j].debate[level] # Absent

\* C20: while the speeches are inserted and after, the rows of
\* speech_speaker and of speech_interjector of each inserted speech are
\* exactly its collected speakers and interjectors that are phids of member;
\* so every row names a member, an identifier that is not one has no row,
\* and the only error of the inserts is the missing debate_id of a None title.
C20_AttributionWithinRoster ==
    /\ pc \in { "insert", "processed" } =>
         /\ \A j \in 1..(insert_i - 1) :
              /\ { row[2] : row \in { r \in speech_speaker : r[1] = j } }
                   = speeches[j].speakers \cap all_members
              /\ { row[2] : row \in { r \in speech_interjector : r[1] = j } }
                   = speeches[j].interjectors \cap all_members
         /\ \A row \in speech_speaker \cup speech_interjector :
              /\ row[1] \in 1..(insert_i - 1)
              /\ row[2] \in all_members
    /\ (pc = "raised" /\ exception = "IntegrityError") =>
         \E j \in DOMAIN speeches, level \in 1..3 :
             speeches[j].debate[level] = None

\* C20: all the speeches are inserted; one has a speaker that is not a
\* member, with no row, and an interjector that is one, with its row.
C20_OneResolvedOneNot ==
    /\ pc = "processed"
    /\ \E j \in DOMAIN speeches :
         /\ \E phid \in speeches[j].speakers :
              /\ phid \notin all_members
              /\ << j, phid >> \notin speech_speaker
         /\ \E phid \in speeches[j].interjectors :
              << j, phid >> \in speech_interjector

\* The talk.starts of the element of entry j of speeches: its turns.
Turns(j) ==
    LET doc == transcript_xml
        k == speech_nodes(doc)[speeches[j].speech_number + 1]
    IN  { n \in (k + 1)..Len(doc) : doc[n].tag = "talk.start" }

\* C21 as stated: once the speeches of the transcript are inserted, each turn
\* of each of them has its row in speech_turn, the turns whose name.id is not
\* a phid of member included.
C21_EveryTurnStored ==
    pc = "processed" =>
        \A j \in DOMAIN speeches :
            \A n \in Turns(j) :
                \E row \in speech_turn :
                    /\ row.speech_id = j
                    /\ row.turn_number = n

\* C22: the transcript of skip_transcripts owns no row of debate or speech,
\* committed or in the open transaction, and its process_time is never set;
\* and once the loop of a run has passed it, the run has printed the message
\* with its reason.
C22_MarkedTranscriptLeftOut ==
    LET t == "chamber/hansards/2010-02-23"
    IN  /\ t \in skip_transcripts
        /\ OwnedRows(t) = {}
        /\ \A r \in tidy_txn.debate \cup tidy_txn.speech :
               r.transcript_id # t
        /\ \A r \in transcript \cup tidy_txn.transcript :
               r.transcript_id = t => r.process_time = NULL
        /\ ( /\ pc = "tidy"
             /\ t \in TranscriptIdsOf(ReadyToProcess(tidy_txn.transcript))
             /\ \A k \in DOMAIN transcript_queue : transcript_queue[k] # t )
           => \E k \in DOMAIN stdout :
                 stdout[k] = << "Skipping marked transcript - ", t,
                                ". Reason: ",
                                "Duplicate of chamber/hansards/2010-03-09" >>

\* C22: a run has come to the end of its loop; it had the marked transcript
\* and another one to process, has extracted the other one and has printed
\* the reason once.
C22_SkippedBesideExtracted ==
    /\ pc = "tidy"
    /\ transcript_queue = << >>
    /\ "chamber/hansards/2010-02-23"
           \in TranscriptIdsOf(ReadyToProcess(tidy_txn.transcript))
    /\ \E d \in tidy_txn.debate :
           d.transcript_id = "chamber/hansards/2007-05-10"
    /\ stdout = << SkipMessage("chamber/hansards/2010-02-23") >>

\* C23 as stated: when the loop over to_process comes to a transcript whose
\* rows, extracted earlier from the same payload, are in debate and speech,
\* the extraction can be done again: its inserts meet no key that is taken,
\* and the rows of the transcript stay the ones of one extraction.
C23_ReextractionIsIdempotent ==
    ( /\ pc = "tidy"
      /\ transcript_queue # << >>
      /\ Head(transcript_queue) \notin skip_transcripts
      /\ ~ ExtractSpeechesRaises(zip[Head(transcript_queue)].payload) ) =>
        LET t == Head(transcript_queue)
            debate_rows == ExtractDebates(t, zip[t].payload)
            speech_rows == ExtractSpeeches(t, zip[t].payload)
            earlier == { d \in tidy_txn.debate : d.transcript_id = t }
                       \cup { sp \in tidy_txn.speech : sp.transcript_id = t }
        IN  (earlier # {} /\ earlier = debate_rows \cup speech_rows) =>
                /\ ~ DebateKeyTaken(tidy_txn.debate, debate_rows)
                /\ ~ SpeechKeyTaken(tidy_txn.speech, speech_rows)

(***************************************************************************)
(* C24: the futures of tidy_html_hansard.py.                               *)
(***************************************************************************)

\* C24: futures never holds more than Capacity rows, and while it holds
\* Capacity rows the loop over the select is stopped at cf.wait; it goes on
\* to the next row only with at least one future taken out of futures,
\* every future taken being one whose worker has returned.
C24_FuturesWithinCapacity ==
    /\ [](/\ Cardinality(futures) <= Capacity
          /\ Cardinality(futures) = Capacity => pc = "wait")
    /\ [][ (pc = "wait" /\ pc' = "submit") =>
              /\ futures' \subseteq futures
              /\ futures' # futures
              /\ (futures \ futures') \subseteq finished
              /\ row_i' = row_i
         ]_vars
    /\ [][ row_i' > row_i => Cardinality(futures) < Capacity ]_vars

\* C24: futures is full, no worker has returned yet, and the select has
\* rows that are not submitted.
C24_FullAndWaiting ==
    /\ pc = "wait"
    /\ Cardinality(futures) = Capacity
    /\ futures \cap finished = {}
    /\ row_i <= Len(collected)

(***************************************************************************)
(* C25, C26: the walk of download_all_transcripts over all_maps.           *)
(***************************************************************************)

\* C25: the loop over all_maps takes up a sub-sitemap only when its lastmod
\* is not greater than the one before it (datetime.now() for the first);
\* otherwise the process ends with AssertionError.  No step of the loop,
\* and not the step that raises, changes transcript, last-run or the
\* archive.
C25_OrderingValidatedBeforeWrites ==
    [][ /\ (pc = "idle" /\ pc' = "urls") => prev_lastmod' <= now
        /\ (pc = "urls" /\ pc' = "urls" /\ map_i' # map_i) =>
               /\ map_i' = map_i + 1
               /\ prev_lastmod' <= prev_lastmod
        /\ (pc = "urls" \/ exception' = "AssertionError") =>
               /\ transcript' = transcript
               /\ last_run' = last_run
               /\ zip' = zip
        /\ (exception' = "AssertionError" /\ pc \in { "idle", "urls" }) =>
               /\ pc' = "idle"
               /\ \A t \in TranscriptIds : activity_latest'[t] = NoActivity
      ]_vars

\* C25: a process has ended with AssertionError at the second sub-sitemap;
\* the ledger of the run before it is as it was.
C25_FailedFast ==
    /\ pc = "idle"
    /\ exception = "AssertionError"
    /\ transcript # {}
    /\ last_run = MaxLastMod(transcript)

\* The lastmod of sub-sitemap i of a fixed site, and whether the
\* sub-sitemaps are in descending order of it.
LastmodOf(i) == CHOOSE m \in SubsiteLastmods(i) : TRUE

Descending ==
    \A i \in 1..(Len(all_maps) - 1) : LastmodOf(i + 1) <= LastmodOf(i)

\* C26: when the loop over all_maps is over, by break at sub-sitemap map_i
\* or at the end of all_maps, the sub-sitemaps before map_i have been gone
\* through, none of them older than last-run minus the margin, and the one
\* of a break is older.  On a site whose sub-sitemaps are in descending
\* order, every url of the hansard family with lastmod at or after last-run
\* minus the margin is in one of the sub-sitemaps gone through, and
\* activity_latest has its group with a lastmod that is not older.
C26_EarlyTerminationLosesNoUpdate ==
    pc = "reconcile" =>
        LET until == last_run - CheckMargin
            visited == 1..(map_i - 1)
        IN  /\ \A i \in visited : LastmodOf(i) >= until
            /\ map_i <= Len(all_maps) => LastmodOf(map_i) < until
            /\ Descending =>
                 \A i \in DOMAIN subsites :
                     \A url \in subsites[i] :
                         (url[1] \in TranscriptLocs /\ url[2] >= until) =>
                             /\ i \in visited
                             /\ activity_latest[Group(url[1])].lastmod # NULL
                             /\ activity_latest[Group(url[1])].lastmod
                                    >= url[2]

\* C26: the loop has ended by break at the second sub-sitemap, which lists a
\* url of the hansard family; the first one listed a url of the family that
\* is not older than last-run minus the margin.
C26_BreakAtSecondSubsite ==
    /\ pc = "reconcile"
    /\ map_i = 2
    /\ Descending
    /\ \E url \in subsites[2] : url[1] \in TranscriptLocs
    /\ \E url \in subsites[1] :
         /\ url[1] \in TranscriptLocs
         /\ url[2] >= last_run - CheckMargin
         /\ activity_latest[Group(url[1])].lastmod = url[2]

(***************************************************************************)
(* C27: the unique key of debate.                                          *)
(***************************************************************************)

\* C27 as stated: when the loop over to_process comes to a transcript whose
\* debate rows have a key (date, house, debate, subdebate_1, subdebate_2)
\* that a row of debate has already, of the same transcript or of another
\* one, the inserts into debate of the turn succeed: none of them raises
\* for a key that is taken.
C27_DebateUpsertByNaturalKey ==
    ( /\ pc = "tidy"
      /\ transcript_queue # << >>
      /\ Head(transcript_queue) \notin skip_transcripts
      /\ ~ ExtractSpeechesRaises(zip[Head(transcript_queue)].payload) ) =>
        LET t == Head(transcript_queue)
            debate_rows == ExtractDebates(t, zip[t].payload)
        IN  ~ DebateKeyTaken(tidy_txn.debate, debate_rows)

(***************************************************************************)
(* C28: the end of the fetch loop of download_all_html.                    *)
(***************************************************************************)

\* C28: when download_all_html has left its fetch loop and returned, every
\* row of proceedings_page has an access_time, and one that is not before
\* its last_mod.
C28_ReturnsWithNothingStale ==
    pc = "done" =>
        \A r \in proceedings_page :
            /\ r.access_time # NULL
            /\ r.access_time >= r.last_mod

\* C28: the program has returned with two rows that were fetched on
\* different days, one of them after its last_mod was raised.
C28_ReturnedAfterSeveralPasses ==
    /\ pc = "done"
    /\ \E r1 \in proceedings_page, r2 \in proceedings_page :
         /\ r1.access_time # NULL
         /\ r2.access_time # NULL
         /\ r1.access_time < r2.access_time
         /\ r2.last_mod > r1.access_time

(***************************************************************************)
(* C29: what tidy_html_hansard.py inserts.                                 *)
(***************************************************************************)

\* C29 as stated: insert_data is given, for each future, the result of that
\* future, also in the loop over the futures left when the select is used
\* up; and no run ends with an exception of insert_data, so that every
\* source page gets its row of proceedings_page or failed_processing_page.
C29_EachPageCommittedOnce ==
    /\ pc = "as_completed" =>
         \A k \in futures \cap finished : result = k
    /\ raised \notin { "UnboundLocalError", "IntegrityError" }

(***************************************************************************)
(* C30: page_id.                                                           *)
(***************************************************************************)

\* C30 as stated: from one state of proceedings_page to the next, a url
\* that stays in the table keeps its page_id, and a page_id that a url had
\* is not the page_id of another url.
C30_PageIdIsStableIdentity ==
    [][ \A before \in proceedings_page, after \in proceedings_page' :
            /\ before.url = after.url => before.page_id = after.page_id
            /\ before.page_id = after.page_id => before.url = after.url
      ]_vars

(***************************************************************************)
(* C31: what a discovery changes in a row that has been fetched.           *)
(***************************************************************************)

\* C31: from one state of proceedings_page to the next, for a url that
\* stays in the table: a change of last_mod is a raise and leaves page_id,
\* access_time and compressed_page of the row as they were; the commit of a
\* discovery leaves a row whose last_mod it does not raise as it was; and
\* access_time and compressed_page change only together, by a fetch that
\* stores the time of the request and a page, and leaves last_mod alone.
C31_DiscoveryRaisesOnlyLastMod ==
    [][ \A before \in proceedings_page, after \in proceedings_page' :
            before.url = after.url =>
              /\ after.last_mod # before.last_mod =>
                   /\ pc = "commit"
                   /\ after.last_mod > before.last_mod
                   /\ after.page_id = before.page_id
                   /\ after.access_time = before.access_time
                   /\ after.compressed_page = before.compressed_page
              /\ (pc = "commit" /\ after.last_mod = before.last_mod) =>
                   after = before
              /\ ( \/ after.access_time # before.access_time
                   \/ after.compressed_page # before.compressed_page ) =>
                   /\ pc = "fetch"
                   /\ after.access_time = now
                   /\ after.compressed_page # NullBlob
                   /\ after.last_mod = before.last_mod
      ]_vars

\* C31: a discovery has been committed that raised the last_mod of a row
\* fetched earlier, which has the page and the access_time of that fetch,
\* beside a fetched row that it did not raise.
C31_RaisedOverFetchedPage ==
    /\ pc = "select"
    /\ \E r \in proceedings_page :
         /\ r.compressed_page # NullBlob
         /\ r.access_time # NULL
         /\ r.access_time < r.last_mod
         /\ r.access_time < now
    /\ \E r \in proceedings_page :
         /\ r.compressed_page # NullBlob
         /\ r.access_time >= r.last_mod

=============================================================================
